---- MODULE Spec2Model ----
(***************************************************************************)
(* A model of the contextual-ai-agent backend: the Redis session store     *)
(* (RedisMemoryStore), the plugin registry and manager, and the request    *)
(* pipeline of AIAgent.processMessage.  Every await of the TypeScript code *)
(* is a suspension point, so every handler is cut into one action per      *)
(* await; between two awaits a handler runs atomically (single-threaded    *)
(* event loop).                                                            *)
(***************************************************************************)
EXTENDS Integers, Sequences, FiniteSets, TLC

(***************************************************************************)
(* Bounds of the model.                                                    *)
(***************************************************************************)
\* Number of client processes (concurrent callers of the store).
MaxProcs == 2
\* Number of store operations issued in one behaviour.
MaxOps == 2
\* Number of Redis command failures injected in one behaviour.
MaxFaults == 1
\* Longest message list a caller hands to updateSession.
MaxLen == 1

Procs == 1..MaxProcs
SessionIds == {"s1", "s2"}

\* JavaScript null, as returned by getSession for a missing or unreadable key.
Null == [null |-> TRUE]

Max(a, b) == IF a > b THEN a ELSE b
Min(a, b) == IF a < b THEN a ELSE b
Range(f) == {f[i] : i \in DOMAIN f}
IsPrefix(a, b) == Len(a) <= Len(b) /\ SubSeq(b, 1, Len(a)) = a

VARIABLES
  store,    \* Redis keys agent:session:<id>: the stored session, or Null
  index,    \* Redis set agent:sessions
  faults,   \* Redis command failures injected so far
  issued,   \* client calls issued so far (its number tags the call's messages)
  pc,       \* per process: position inside the store operation it runs
  op,       \* per process: the store operation and its arguments
  snap,     \* per process: the session its getSession returned
  ret,      \* per process: how its last store operation ended
  plugins,  \* DefaultPluginRegistry.plugins: plugin names in Map order
  routed,   \* the PluginManager.processMessage calls made on the registry
  openai,   \* AIAgent.openai: whether an OpenAI client is configured
  agent,    \* per process: the processMessage request it runs
  initialized, \* RAGService.initialized
  chunks,   \* InMemoryVectorStore.chunks: the chunk ids in insertion order
  embeddings, \* InMemoryVectorStore.embeddings: per chunk id, the vector set
  inits,    \* per initialize call: its position and what it has done
  asked,    \* the query call on the RAG service in flight or last completed
  call,     \* the PluginManager.processMessage call being timed
  calc,     \* the function applied to an input, and its result
  now,      \* the time, in units of 12 hours
  stamps    \* per session id: last_active of the record and when its key expires

storeVars == <<store, index, faults, issued, pc, op, snap, ret>>
registryVars == <<plugins, routed>>
agentVars == <<openai, agent>>
ragVars == <<initialized, chunks, embeddings, inits, asked>>
routerVars == <<call>>
workVars == <<calc>>
timeVars == <<now, stamps>>
extraVars == <<ragVars, routerVars, workVars, timeVars>>
vars ==
  <<storeVars, registryVars, agentVars, ragVars, routerVars, workVars, timeVars>>

\* A ChatMessage; ts stands for its timestamp (unique per created message).
ChatMessage(role, content, ts) == [role |-> role, content |-> content, ts |-> ts]

\* The session addMessage builds when getSession returned null.
FreshSession(sessionId) ==
  [session_id |-> sessionId, messages |-> <<>>, message_count |-> 0]

NoOp == [name |-> "none"]
\* wrote records whether the SETEX of the operation took effect.
NoRet == [threw |-> FALSE, value |-> <<>>, wrote |-> FALSE]

\* Calls are anonymous async frames: a new call takes the lowest idle frame.
Idle(p) == pc[p] = "idle" /\ agent[p].pc = "idle"
Free(p) == Idle(p) /\ \A q \in Procs : q < p => ~Idle(q)

\* Session ids are interchangeable: the first call of a behaviour names "s1".
Targets == IF issued = 0 THEN {"s1"} ELSE SessionIds

\* Whether one more Redis command failure may be injected.
MayFail == faults < MaxFaults
Outcomes == IF MayFail THEN {TRUE, FALSE} ELSE {TRUE}

(***************************************************************************)
(* RedisMemoryStore.getSession: the parsed record, or null when the key is *)
(* missing and also when the GET or the parse failed (the catch).          *)
(***************************************************************************)
getSession(sessionId, ok) == IF ok THEN store[sessionId] ELSE Null

(***************************************************************************)
(* Array.prototype.slice(start) of JavaScript: a negative start counts     *)
(* from the end, and -0 is 0.                                              *)
(***************************************************************************)
JSSliceFrom(a, start) ==
  LET k == IF start < 0 THEN Max(Len(a) + start, 0) ELSE Min(start, Len(a))
  IN  SubSeq(a, k + 1, Len(a))

\* A getRecentMessages that ignores its limit.
RecentOfAll(session, limit) ==
  IF session = Null THEN <<>> ELSE session.messages

\* getRecentMessages on the session getSession returned.
RecentOf(session, limit) ==
  IF session = Null THEN <<>> ELSE JSSliceFrom(session.messages, 0 - limit)

(***************************************************************************)
(* RedisMemoryStore.updateSession: message_count is set from the message   *)
(* list, then SETEX and SADD are issued together (Promise.all); either may *)
(* fail, and a failure is rethrown.                                        *)
(***************************************************************************)
\* updateSession without L94-97: the caller's count is persisted as given.
NormalisedKept(session) == session

Normalised(session) ==
  [session EXCEPT !.message_count = Len(session.messages)]

\* updateSession whose catch block only logs.
RethrowNever(setOk, addOk) == FALSE

Rethrow(setOk, addOk) == ~(setOk /\ addOk)

updateSession(sessionId, session, setOk, addOk) ==
  /\ store' = IF setOk
              THEN [store EXCEPT ![sessionId] = Normalised(session)]
              ELSE store
  /\ index' = IF addOk THEN index \cup {sessionId} ELSE index
  /\ faults' = IF setOk /\ addOk THEN faults ELSE faults + 1

\* The session addMessage hands to updateSession.
Pushed(session, message) ==
  [session EXCEPT !.messages = Append(@, message)]

AddedTo(snapshot, sessionId, message) ==
  Pushed(IF snapshot = Null THEN FreshSession(sessionId) ELSE snapshot, message)

(***************************************************************************)
(* addMessage(sessionId, message): await getSession; push; await           *)
(* updateSession.                                                          *)
(***************************************************************************)
CallAdd(p, sessionId, message) ==
  /\ op' = [op EXCEPT ![p] = [name |-> "addMessage", sid |-> sessionId,
                              message |-> message]]
  /\ pc' = [pc EXCEPT ![p] = "add_read"]
  /\ ret' = [ret EXCEPT ![p] = NoRet]
  /\ UNCHANGED <<store, index, faults, snap>>

AddRead(p) ==
  /\ pc[p] = "add_read"
  /\ \E ok \in Outcomes :
       /\ snap' = [snap EXCEPT ![p] = getSession(op[p].sid, ok)]
       /\ faults' = IF ok THEN faults ELSE faults + 1
  /\ pc' = [pc EXCEPT ![p] = "add_write"]
  /\ UNCHANGED <<store, index, issued, op, ret>>

AddWrite(p) ==
  /\ pc[p] = "add_write"
  /\ \E setOk \in Outcomes, addOk \in Outcomes :
       /\ updateSession(op[p].sid, AddedTo(snap[p], op[p].sid, op[p].message),
                        setOk, addOk)
       /\ ret' = [ret EXCEPT ![p] = [threw |-> Rethrow(setOk, addOk),
                                     value |-> <<>>, wrote |-> setOk]]
  /\ pc' = [pc EXCEPT ![p] = "ret"]
  /\ snap' = [snap EXCEPT ![p] = Null]
  /\ UNCHANGED <<issued, op>>

(***************************************************************************)
(* A direct updateSession(sessionId, session) call with a caller-built     *)
(* session whose metadata may disagree with its message list.              *)
(***************************************************************************)
InputMessages ==
  {[i \in 1..n |-> ChatMessage("user", "u", 0)] : n \in 0..MaxLen}

UpdStart(p) ==
  /\ Free(p)
  /\ issued < MaxOps
  /\ issued' = issued + 1
  /\ \E sessionId \in Targets, ms \in InputMessages, n \in 0..MaxLen :
       /\ op' = [op EXCEPT ![p] =
                   [name |-> "updateSession", sid |-> sessionId,
                    session |-> [session_id |-> sessionId, messages |-> ms,
                                 message_count |-> n]]]
  /\ pc' = [pc EXCEPT ![p] = "upd_write"]
  /\ ret' = [ret EXCEPT ![p] = NoRet]
  /\ UNCHANGED <<store, index, faults, snap>>

UpdWrite(p) ==
  /\ pc[p] = "upd_write"
  /\ \E setOk \in Outcomes, addOk \in Outcomes :
       /\ updateSession(op[p].sid, op[p].session, setOk, addOk)
       /\ ret' = [ret EXCEPT ![p] = [threw |-> Rethrow(setOk, addOk),
                                     value |-> <<>>, wrote |-> setOk]]
  /\ pc' = [pc EXCEPT ![p] = "ret"]
  /\ UNCHANGED <<issued, op, snap>>

(***************************************************************************)
(* getRecentMessages(sessionId, limit).                                    *)
(***************************************************************************)
CallRecent(p, sessionId, limit) ==
  /\ op' = [op EXCEPT ![p] = [name |-> "getRecentMessages", sid |-> sessionId,
                              limit |-> limit]]
  /\ pc' = [pc EXCEPT ![p] = "recent_read"]
  /\ ret' = [ret EXCEPT ![p] = NoRet]
  /\ UNCHANGED <<store, index, faults, snap>>

RecentRead(p) ==
  /\ pc[p] = "recent_read"
  /\ \E ok \in Outcomes :
       /\ snap' = [snap EXCEPT ![p] = getSession(op[p].sid, ok)]
       /\ ret' = [ret EXCEPT ![p] =
                    [threw |-> FALSE, wrote |-> FALSE,
                     value |-> RecentOf(getSession(op[p].sid, ok), op[p].limit)]]
       /\ faults' = IF ok THEN faults ELSE faults + 1
  /\ pc' = [pc EXCEPT ![p] = "ret"]
  /\ UNCHANGED <<store, index, issued, op>>

(***************************************************************************)
(* deleteSession(sessionId): DEL and SREM issued together (Promise.all).   *)
(***************************************************************************)
DelStart(p) ==
  /\ Free(p)
  /\ issued < MaxOps
  /\ issued' = issued + 1
  /\ \E sessionId \in Targets :
       op' = [op EXCEPT ![p] = [name |-> "deleteSession", sid |-> sessionId]]
  /\ pc' = [pc EXCEPT ![p] = "del_exec"]
  /\ ret' = [ret EXCEPT ![p] = NoRet]
  /\ UNCHANGED <<store, index, faults, snap>>

DelExec(p) ==
  /\ pc[p] = "del_exec"
  /\ \E delOk \in Outcomes, remOk \in Outcomes :
       /\ store' = IF delOk THEN [store EXCEPT ![op[p].sid] = Null] ELSE store
       /\ index' = IF remOk THEN index \ {op[p].sid} ELSE index
       /\ faults' = IF delOk /\ remOk THEN faults ELSE faults + 1
       /\ ret' = [ret EXCEPT ![p] = [threw |-> ~(delOk /\ remOk),
                                     value |-> <<>>, wrote |-> FALSE]]
  /\ pc' = [pc EXCEPT ![p] = "ret"]
  /\ UNCHANGED <<issued, op, snap>>

\* The caller takes the result of its store operation.
Return(p) ==
  /\ pc[p] = "ret"
  /\ agent[p].pc = "idle"
  /\ pc' = [pc EXCEPT ![p] = "idle"]
  /\ op' = [op EXCEPT ![p] = NoOp]
  /\ ret' = [ret EXCEPT ![p] = NoRet]
  /\ snap' = [snap EXCEPT ![p] = Null]
  /\ UNCHANGED <<store, index, faults, issued>>

(***************************************************************************)
(* Clients calling the store directly.                                     *)
(***************************************************************************)
AddStart(p) ==
  /\ Free(p)
  /\ issued < MaxOps
  /\ issued' = issued + 1
  /\ \E sessionId \in Targets :
       CallAdd(p, sessionId,
               ChatMessage("user", "m" \o ToString(issued + 1), issued + 1))

RecentStart(p) ==
  /\ Free(p)
  /\ issued < MaxOps
  /\ issued' = issued + 1
  /\ \E sessionId \in Targets :
       \E limit \in 0..(IF store[sessionId] = Null THEN 0
                        ELSE Len(store[sessionId].messages)) + 1 :
         CallRecent(p, sessionId, limit)


(***************************************************************************)
(* Plugins.  A message is one of a few sample inputs; for each the result  *)
(* of every regular expression of canHandle is tabulated below.            *)
(***************************************************************************)
MsgWeather == "What is the weather like in New York?"
MsgMath == "Calculate 15 * 8 + sqrt(144)"
MsgBoth == "Calculate the temperature difference: 30 - 12"
MsgNone == "Hello there"
SampleMessages == {MsgWeather, MsgMath, MsgBoth, MsgNone}

\* WeatherPlugin.canHandle: /\b(weather|temperature|...)\b/i
WeatherKeywords == {MsgWeather, MsgBoth}
\* WeatherPlugin.canHandle: /\b(in|at|for)\s+([a-zA-Z\s,]+)(\?|$)/i
LocationPattern == {MsgWeather}
\* MathPlugin.canHandle: /\b(calculate|compute|solve|math|...)\b/i
MathKeywords == {MsgMath, MsgBoth}
\* MathPlugin.canHandle: /[+\-*/^%=()]/
MathOperators == {MsgMath, MsgBoth}
\* MathPlugin.canHandle: /\b\d+\s*[+\-*/^%]\s*\d+/
MathExpression == {MsgMath, MsgBoth}

WeatherCanHandle(input) ==
  input \in WeatherKeywords \/ input \in LocationPattern

MathCanHandle(input) ==
  input \in MathKeywords \/ input \in MathOperators \/ input \in MathExpression

\* A third plugin written to the Plugin interface, with no timeout of its
\* own; it accepts what the two built-in plugins leave.
CustomPlugin == "custom"
CustomCanHandle(input) == input = MsgNone

canHandle(name, input) ==
  IF name = "weather" THEN WeatherCanHandle(input)
  ELSE IF name = "math" THEN MathCanHandle(input)
  ELSE CustomCanHandle(input)

PluginNames == {"weather", "math"}
NoPlugin == "none"

(***************************************************************************)
(* What happens inside execute: the plugin found nothing to work on        *)
(* (no location, no expression, no API key), its work threw (the HTTP      *)
(* request, the evaluation), or it succeeded.                              *)
(***************************************************************************)
ExecOutcomes == {"ok", "no_input", "error"}

\* WeatherPlugin.execute without its try/catch: the failed request rejects.
WeatherExecuteNoCatch(outcome) ==
  IF outcome = "ok"
  THEN [threw |-> FALSE,
        result |-> [success |-> TRUE, error |-> "", pluginUsed |-> "weather"]]
  ELSE IF outcome = "no_input"
  THEN [threw |-> FALSE,
        result |-> [success |-> FALSE, error |-> "No location specified",
                    pluginUsed |-> ""]]
  ELSE [threw |-> TRUE, result |-> Null]

\* WeatherPlugin.execute: the whole body is inside try/catch.
WeatherExecute(outcome) ==
  IF outcome = "ok"
  THEN [threw |-> FALSE,
        result |-> [success |-> TRUE, error |-> "", pluginUsed |-> "weather"]]
  ELSE IF outcome = "no_input"
  THEN [threw |-> FALSE,
        result |-> [success |-> FALSE, error |-> "No location specified",
                    pluginUsed |-> ""]]
  ELSE [threw |-> FALSE,
        result |-> [success |-> FALSE, error |-> "Weather fetch failed",
                    pluginUsed |-> ""]]

\* MathPlugin.execute: the whole body is inside try/catch; its results carry
\* no error and no pluginUsed field.
MathExecute(outcome) ==
  IF outcome = "ok"
  THEN [threw |-> FALSE,
        result |-> [success |-> TRUE, error |-> "", pluginUsed |-> ""]]
  ELSE [threw |-> FALSE,
        result |-> [success |-> FALSE, error |-> "", pluginUsed |-> ""]]

\* The custom plugin's execute, when it settles: a result, or a rejection.
CustomExecute(outcome) ==
  IF outcome = "error" THEN [threw |-> TRUE, result |-> Null]
  ELSE [threw |-> FALSE,
        result |-> [success |-> outcome = "ok", error |-> "",
                    pluginUsed |-> CustomPlugin]]

execute(name, outcome) ==
  IF name = "weather" THEN WeatherExecute(outcome)
  ELSE IF name = "math" THEN MathExecute(outcome)
  ELSE CustomExecute(outcome)

(***************************************************************************)
(* DefaultPluginRegistry: a Map from name to plugin, iterated in insertion *)
(* order; set() on a present key keeps the key's place.                    *)
(***************************************************************************)
register(ps, name) ==
  IF name \in Range(ps) THEN ps ELSE Append(ps, name)

MinOf(S) == CHOOSE i \in S : \A j \in S : i <= j
MaxOf(S) == CHOOSE i \in S : \A j \in S : i >= j

Matching(ps, input) == {i \in 1..Len(ps) : canHandle(ps[i], input)}

\* A lookup that keeps the last accepting plugin instead of the first.
getPluginLast(ps, input) ==
  IF Matching(ps, input) = {} THEN NoPlugin
  ELSE ps[MaxOf(Matching(ps, input))]

RECURSIVE getPluginFrom(_, _, _)
getPluginFrom(ps, input, i) ==
  IF i > Len(ps) THEN NoPlugin
  ELSE IF canHandle(ps[i], input) THEN ps[i]
  ELSE getPluginFrom(ps, input, i + 1)

getPlugin(ps, input) == getPluginFrom(ps, input, 1)

\* PluginManager.initializePlugins
initializePlugins == register(register(<<>>, "weather"), "math")

(***************************************************************************)
(* PluginManager.processMessage: the matched plugin, if any, is executed   *)
(* and its result (or its exception) is the manager's.  executed lists the *)
(* plugins whose execute ran.                                              *)
(***************************************************************************)
RECURSIVE ChainFrom(_, _, _, _)
ChainFrom(ps, input, outcome, i) ==
  IF i > Len(ps) THEN [threw |-> FALSE, result |-> Null, executed |-> <<>>]
  ELSE IF ~canHandle(ps[i], input) THEN ChainFrom(ps, input, outcome, i + 1)
  ELSE LET r == execute(ps[i], outcome)
           rest == ChainFrom(ps, input, outcome, i + 1)
       IN  IF r.threw \/ r.result.success \/ rest.executed = <<>>
           THEN [threw |-> r.threw, result |-> r.result, executed |-> <<ps[i]>>]
           ELSE [rest EXCEPT !.executed = <<ps[i]>> \o @]

\* A manager that falls back to the next accepting plugin on a failed result.
pmProcessMessageChained(ps, input, outcome) == ChainFrom(ps, input, outcome, 1)

pmProcessMessage(ps, input, outcome) ==
  LET plugin == getPlugin(ps, input)
  IN  IF plugin = NoPlugin
      THEN [threw |-> FALSE, result |-> Null, executed |-> <<>>]
      ELSE LET r == execute(plugin, outcome)
           IN  [threw |-> r.threw, result |-> r.result, executed |-> <<plugin>>]

\* A caller registers a plugin.
Register(name) ==
  /\ plugins' = register(plugins, name)
  /\ UNCHANGED routed

\* A caller hands a message to the plugin manager.
Route(input, outcome) ==
  /\ Len(routed) < MaxOps
  /\ routed' = Append(routed,
                 [plugins |-> plugins, input |-> input, outcome |-> outcome,
                  plugin |-> getPlugin(plugins, input),
                  run |-> pmProcessMessage(plugins, input, outcome)])
  /\ UNCHANGED plugins

(***************************************************************************)
(* RAGService.getRelevantContext: the search found chunks above the        *)
(* threshold, found none, or something inside the try block threw (the     *)
(* catch returns the empty string).                                        *)
(***************************************************************************)
RagOutcomes == {"hit", "miss", "error"}

getRelevantContext(outcome) ==
  [threw |-> FALSE, value |-> IF outcome = "hit" THEN "[Context 1] chunk" ELSE ""]

\* A processMessage that consults the documents only when no plugin answered.
RetrievalOutcomesGated(pluginResult) ==
  IF pluginResult # Null /\ pluginResult.success THEN {"none"} ELSE RagOutcomes

\* L78: getRelevantContext is awaited whatever pluginResult is.
RetrievalOutcomes(pluginResult) == RagOutcomes

(***************************************************************************)
(* AIAgent.generateOpenAIResponse: the completion's text, the apology when *)
(* the completion has no content, the degraded message when the call threw.*)
(***************************************************************************)
Degraded == "I'm experiencing technical difficulties. Please try again."
Apology == "I apologize, but I couldn't generate a response."
LLMReply == "completion text"
LLMOutcomes == {"ok", "empty", "throw"}

\* generateOpenAIResponse without its try/catch.
generateOpenAIResponseNoCatch(outcome) ==
  IF outcome = "ok" THEN [threw |-> FALSE, value |-> LLMReply]
  ELSE IF outcome = "empty" THEN [threw |-> FALSE, value |-> Apology]
  ELSE [threw |-> TRUE, value |-> ""]

generateOpenAIResponse(outcome) ==
  IF outcome = "ok" THEN [threw |-> FALSE, value |-> LLMReply]
  ELSE IF outcome = "empty" THEN [threw |-> FALSE, value |-> Apology]
  ELSE [threw |-> FALSE, value |-> Degraded]

(***************************************************************************)
(* AIAgent.processMessage.  The request is cut at its awaits; the reply of *)
(* an awaited store command and the code up to the next await form one     *)
(* action.  Locals are cleared after their last use.                       *)
(***************************************************************************)
\* Number of processMessage requests issued in one behaviour.
MaxReqs == 2
\* The history window of processMessage and the memory-summary window.
HistoryLimit == 10
SummaryLimit == 2

IdleAgent ==
  [pc |-> "idle", sid |-> "", k |-> 0, userMessage |-> "", history |-> <<>>,
   pluginResult |-> Null, rag |-> "none", context |-> "", llm |-> "none",
   response |-> "", reply |-> "", userStored |-> FALSE, asstStored |-> FALSE,
   failedAt |-> "", before |-> <<>>]

\* The messages stored for a session (none when the key is missing); a
\* request remembers in before what was stored when it was made.
MessagesOf(sessionId) ==
  IF store[sessionId] = Null THEN <<>> ELSE store[sessionId].messages

\* An awaited call that rejected throws in the caller.
\* A call whose promise is not awaited: its rejection is not seen.
AwaitIgnored(threw) == FALSE
AwaitThrows(threw) == threw

\* The request's frame holds no store call.
Release(p) ==
  /\ pc' = [pc EXCEPT ![p] = "idle"]
  /\ op' = [op EXCEPT ![p] = NoOp]
  /\ snap' = [snap EXCEPT ![p] = Null]

Fail(p, stage) ==
  agent' = [agent EXCEPT ![p].pc = "failed", ![p].failedAt = stage,
                         ![p].history = <<>>]

\* L57-64: the user message is built and addMessage is awaited.
PMStart(p) ==
  /\ Free(p)
  /\ issued < MaxReqs
  /\ issued' = issued + 1
  /\ \E sessionId \in Targets, m \in SampleMessages :
       /\ agent' = [agent EXCEPT ![p] =
                      [IdleAgent EXCEPT !.pc = "add1", !.sid = sessionId,
                                        !.k = issued + 1, !.userMessage = m,
                                        !.before = MessagesOf(sessionId)]]
       /\ CallAdd(p, sessionId, ChatMessage("user", m, issued + 1))
  /\ UNCHANGED openai

\* addMessage's getSession inside a request.
PMAddRead(p) ==
  /\ agent[p].pc \in {"add1", "add2"}
  /\ AddRead(p)
  /\ UNCHANGED agentVars

\* L64-66: the first addMessage ends; getRecentMessages(sessionId, 10).
PMAdd1Write(p) ==
  /\ agent[p].pc = "add1"
  /\ pc[p] = "add_write"
  /\ \E setOk \in Outcomes, addOk \in Outcomes :
       /\ updateSession(op[p].sid, AddedTo(snap[p], op[p].sid, op[p].message),
                        setOk, addOk)
       /\ IF AwaitThrows(Rethrow(setOk, addOk))
          THEN Fail(p, "add1") /\ Release(p)
          ELSE /\ agent' = [agent EXCEPT ![p].pc = "recent",
                                         ![p].userStored = setOk]
               /\ op' = [op EXCEPT ![p] =
                           [name |-> "getRecentMessages", sid |-> agent[p].sid,
                            limit |-> HistoryLimit]]
               /\ pc' = [pc EXCEPT ![p] = "recent_read"]
               /\ snap' = [snap EXCEPT ![p] = Null]
  /\ UNCHANGED <<issued, ret, openai>>

\* L66-76: the history arrives; pluginManager.processMessage is awaited.
PMRecentRead(p) ==
  /\ agent[p].pc = "recent"
  /\ pc[p] = "recent_read"
  /\ \E ok \in Outcomes :
       /\ agent' = [agent EXCEPT ![p].pc = "plugin",
                      ![p].history = RecentOf(getSession(op[p].sid, ok),
                                              op[p].limit)]
       /\ faults' = IF ok THEN faults ELSE faults + 1
  /\ Release(p)
  /\ UNCHANGED <<store, index, issued, ret, openai>>

\* L72-78: the plugin manager ends; getRelevantContext is awaited.
PMPlugin(p) ==
  /\ agent[p].pc = "plugin"
  /\ \E outcome \in ExecOutcomes :
       LET run == pmProcessMessage(plugins, agent[p].userMessage, outcome)
       IN  IF AwaitThrows(run.threw)
           THEN Fail(p, "plugin")
           ELSE agent' = [agent EXCEPT ![p].pc = "rag",
                                       ![p].pluginResult = run.result]
  /\ UNCHANGED <<storeVars, openai>>

\* L78-95: retrieval ends.  With a client, generateOpenAIResponse starts
\* and buildSystemPrompt awaits getSession; without one the degraded
\* message is the response and the second addMessage is awaited.
PMRag(p) ==
  /\ agent[p].pc = "rag"
  /\ \E outcome \in RetrievalOutcomes(agent[p].pluginResult) :
       LET r == getRelevantContext(outcome)
       IN  IF AwaitThrows(r.threw)
           THEN Fail(p, "rag") /\ UNCHANGED <<pc, op, ret>>
           ELSE IF openai
           THEN /\ agent' = [agent EXCEPT ![p].pc = "prompt_session",
                               ![p].rag = outcome, ![p].context = r.value]
                /\ op' = [op EXCEPT ![p] =
                            [name |-> "getSession", sid |-> agent[p].sid]]
                /\ pc' = [pc EXCEPT ![p] = "get_read"]
                /\ ret' = ret
           ELSE /\ agent' = [agent EXCEPT ![p].pc = "add2", ![p].rag = outcome,
                               ![p].context = r.value, ![p].history = <<>>,
                               ![p].llm = "noclient", ![p].response = Degraded]
                /\ op' = [op EXCEPT ![p] =
                            [name |-> "addMessage", sid |-> agent[p].sid,
                             message |-> ChatMessage("assistant", Degraded,
                                                     agent[p].k)]]
                /\ pc' = [pc EXCEPT ![p] = "add_read"]
                /\ ret' = ret
  /\ UNCHANGED <<store, index, faults, issued, snap, openai>>

\* L128-132: buildSystemPrompt's getSession ends; getRecentMessages(id, 2).
PMPromptSession(p) ==
  /\ agent[p].pc = "prompt_session"
  /\ pc[p] = "get_read"
  /\ \E ok \in Outcomes : faults' = IF ok THEN faults ELSE faults + 1
  /\ agent' = [agent EXCEPT ![p].pc = "prompt_recent"]
  /\ op' = [op EXCEPT ![p] =
              [name |-> "getRecentMessages", sid |-> agent[p].sid,
               limit |-> SummaryLimit]]
  /\ pc' = [pc EXCEPT ![p] = "recent_read"]
  /\ UNCHANGED <<store, index, issued, snap, ret, openai>>

\* L132-118: the memory summary arrives; the completion is awaited.
PMPromptRecent(p) ==
  /\ agent[p].pc = "prompt_recent"
  /\ pc[p] = "recent_read"
  /\ \E ok \in Outcomes : faults' = IF ok THEN faults ELSE faults + 1
  /\ agent' = [agent EXCEPT ![p].pc = "llm"]
  /\ Release(p)
  /\ UNCHANGED <<store, index, issued, ret, openai>>

\* L110-125 and L89-95: the completion ends; the second addMessage.
PMLLM(p) ==
  /\ agent[p].pc = "llm"
  /\ \E outcome \in LLMOutcomes :
       LET r == generateOpenAIResponse(outcome)
       IN  IF AwaitThrows(r.threw)
           THEN /\ agent' = [agent EXCEPT ![p].pc = "failed",
                               ![p].failedAt = "llm", ![p].llm = outcome,
                               ![p].history = <<>>]
                /\ UNCHANGED <<store, index, faults, pc, op, snap, ret>>
           ELSE /\ agent' = [agent EXCEPT ![p].pc = "add2", ![p].llm = outcome,
                               ![p].history = <<>>, ![p].response = r.value]
                /\ CallAdd(p, agent[p].sid,
                           ChatMessage("assistant", r.value, agent[p].k))
  /\ UNCHANGED <<issued, openai>>

\* L95-97: the second addMessage ends; the response is returned.
PMAdd2Write(p) ==
  /\ agent[p].pc = "add2"
  /\ pc[p] = "add_write"
  /\ \E setOk \in Outcomes, addOk \in Outcomes :
       /\ updateSession(op[p].sid, AddedTo(snap[p], op[p].sid, op[p].message),
                        setOk, addOk)
       /\ IF AwaitThrows(Rethrow(setOk, addOk))
          THEN Fail(p, "add2")
          ELSE agent' = [agent EXCEPT ![p].pc = "done",
                                      ![p].asstStored = setOk,
                                      ![p].reply = agent[p].response]
  /\ Release(p)
  /\ UNCHANGED <<issued, ret, openai>>

\* The route handler has answered (or the error handler has).
PMReturn(p) ==
  /\ agent[p].pc \in {"done", "failed"}
  /\ agent' = [agent EXCEPT ![p] = IdleAgent]
  /\ UNCHANGED <<storeVars, openai>>

(***************************************************************************)
(* InMemoryVectorStore and RAGService.  A chunk is named by the document   *)
(* it comes from.  The cosine similarity of a query to a chunk is decided  *)
(* by the embeddings the provider returned (real ones, or the random mock  *)
(* vector after a failed call), so it is an input: a value in tenths.      *)
(***************************************************************************)
MaxDocs == 3
MaxInits == 2
MaxSim == 2
\* result.similarity > 0.1, in tenths
Threshold == 1

Docs == 1..MaxDocs
InitCalls == 1..MaxInits
Sims == 0..MaxSim

\* Document.chunks of a loaded document.
ChunksOf(d) == <<d>>

\* similarities.sort((a, b) => b.similarity - a.similarity): a stable sort,
\* computed by taking, again and again, the earliest of the largest.
RECURSIVE SortDesc(_)
SortDesc(items) ==
  IF items = <<>> THEN <<>>
  ELSE LET best == CHOOSE i \in DOMAIN items :
                     /\ \A j \in DOMAIN items :
                          items[j].similarity <= items[i].similarity
                     /\ \A j \in 1..(i - 1) :
                          items[j].similarity < items[i].similarity
           rest == [j \in 1..(Len(items) - 1) |->
                      IF j < best THEN items[j] ELSE items[j + 1]]
       IN  <<items[best]>> \o SortDesc(rest)

\* Array.prototype.slice(0, end) for end >= 0
JSSliceTo(a, end) == SubSeq(a, 1, Min(end, Len(a)))

\* OpenAIEmbeddingProvider.generateEmbedding: a failed call is caught and
\* answered with the mock vector.
generateEmbedding(embOk) == [threw |-> FALSE, mock |-> ~embOk]

Scored(cs, sims) ==
  [i \in DOMAIN cs |-> [chunk |-> cs[i], pos |-> i, similarity |-> sims[i]]]

\* The chunks kept in insertion order: the sort left out.
searchUnsorted(cs, sims, topK, embOk) ==
  IF generateEmbedding(embOk).threw THEN [threw |-> FALSE, value |-> <<>>]
  ELSE [threw |-> FALSE, value |-> JSSliceTo(Scored(cs, sims), topK)]

\* InMemoryVectorStore.search: the query embedding, every chunk scored,
\* sorted, slice(0, topK); an exception inside is caught and gives [].
search(cs, sims, topK, embOk) ==
  IF generateEmbedding(embOk).threw THEN [threw |-> FALSE, value |-> <<>>]
  ELSE [threw |-> FALSE, value |-> JSSliceTo(SortDesc(Scored(cs, sims)), topK)]

NotInitialized == "RAG service not initialized"

\* RAGService.searchDocuments
searchDocuments(init, cs, sims, topK, embOk) ==
  IF ~init THEN [threw |-> TRUE, error |-> NotInitialized, value |-> <<>>]
  ELSE [threw |-> search(cs, sims, topK, embOk).threw, error |-> "",
        value |-> search(cs, sims, topK, embOk).value]

\* results.filter(...).map((result, index) => `[Context ${index + 1}] ...`)
Numbered(results) ==
  [i \in DOMAIN results |-> [n |-> i, chunk |-> results[i].chunk,
                             similarity |-> results[i].similarity]]

\* A filter that also keeps a result whose similarity equals the threshold.
PassesInclusive(result) == result.similarity >= Threshold

Passes(result) == result.similarity > Threshold

\* getRelevantContext answering a call on an uninitialized service with the
\* error searchDocuments throws.
ragGetRelevantContextThrowing(init, cs, sims, maxResults, embOk) ==
  IF ~init THEN [threw |-> TRUE, error |-> NotInitialized, value |-> <<>>]
  ELSE [threw |-> FALSE, error |-> "",
        value |-> Numbered(SelectSeq(search(cs, sims, maxResults, embOk).value,
                                     Passes))]

\* RAGService.getRelevantContext; the joined text is the list of its
\* numbered blocks, the empty string the empty list.  An exception of the
\* search would be caught and give the empty string.
ragGetRelevantContext(init, cs, sims, maxResults, embOk) ==
  IF ~init THEN [threw |-> FALSE, error |-> "", value |-> <<>>]
  ELSE IF search(cs, sims, maxResults, embOk).threw
  THEN [threw |-> FALSE, error |-> "", value |-> <<>>]
  ELSE [threw |-> FALSE, error |-> "",
        value |-> Numbered(SelectSeq(search(cs, sims, maxResults, embOk).value,
                                     Passes))]

NoCall == [pc |-> "idle"]

\* maxResults = 3 and topK = 5, the defaults of the two query methods
DefaultMaxResults == 3
DefaultTopK == 5

IdleInit == [pc |-> "idle", pending |-> {}, loaded |-> FALSE, inserted |-> 0]
NoAsk == [pc |-> "none"]

\* The length of the vectors of text-embedding-3-small and of the mock.
EmbeddingLength == 1536
\* Vector lengths another EmbeddingProvider may return.
MaxDim == 2
Dims == 1..MaxDim

\* No entry in the embeddings Map; sets counts the set() calls on the key.
NoEmbedding == [dim |-> 0, sets |-> 0]

\* L15-19: this.embeddings.set(chunk.id, embeddings[index]) for each chunk
\* of the document; the vector is stored whatever its length.
SetEmbeddings(es, d, dim) ==
  [c \in DOMAIN es |->
     IF c \in Range(ChunksOf(d)) THEN [dim |-> dim, sets |-> es[c].sets + 1]
     ELSE es[c]]

\* A search that writes the vectors it read back into the Map.
EmbeddingsAfterSearchRewritten(es, cs) ==
  [c \in DOMAIN es |->
     IF c \in Range(cs) THEN [es[c] EXCEPT !.sets = @ + 1] ELSE es[c]]

\* L34-61: search reads this.chunks and this.embeddings.get and writes
\* neither.
EmbeddingsAfterSearch(es, cs) == es

\* An initialize that never looks at the flag.
InitEntryAlways(flag) == "loading"

\* if (this.initialized) return;
InitEntry(flag) == IF flag THEN "done" ELSE "loading"

\* initialize(): returns at once when initialized, else awaits loadDocuments.
InitStart(i) ==
  /\ inits[i].pc = "idle"
  /\ \A j \in InitCalls : j < i => inits[j].pc # "idle"
  /\ inits' = [inits EXCEPT ![i].pc = InitEntry(initialized)]
  /\ UNCHANGED <<initialized, chunks, embeddings, asked>>

\* loadDocuments ends: it threw (rethrown by initialize), or it returned
\* the documents of the directory (none, or Docs) and addDocument is called
\* on each of them (Promise.all).
InitLoad(i) ==
  /\ inits[i].pc = "loading"
  /\ \/ inits' = [inits EXCEPT ![i].pc = "failed"]
     \/ \E ds \in {{}, Docs} :
          inits' = [inits EXCEPT ![i].pc = "adding", ![i].pending = ds,
                                 ![i].loaded = TRUE]
  /\ UNCHANGED <<initialized, chunks, embeddings, asked>>

\* addDocument(d): its generateEmbeddings call ended (with embeddings or
\* with mock vectors) and its chunks are pushed.
InitAdd(i, d) ==
  /\ inits[i].pc = "adding"
  /\ d \in inits[i].pending
  /\ chunks' = chunks \o ChunksOf(d)
  /\ embeddings' = SetEmbeddings(embeddings, d, EmbeddingLength)
  /\ inits' = [inits EXCEPT ![i].pending = @ \ {d},
                            ![i].inserted = @ + Len(ChunksOf(d))]
  /\ UNCHANGED <<initialized, asked>>

\* Every addDocument has ended: initialized = true.
InitFinish(i) ==
  /\ inits[i].pc = "adding"
  /\ inits[i].pending = {}
  /\ initialized' = TRUE
  /\ inits' = [inits EXCEPT ![i].pc = "done"]
  /\ UNCHANGED <<chunks, embeddings, asked>>

\* A query call starts.  Uninitialized, getRelevantContext returns and
\* searchDocuments throws at once; otherwise the query embedding is awaited.
AskStart(o, k) ==
  /\ asked.pc # "pending"
  /\ IF o = "getRelevantContext" /\ ~initialized
     THEN asked' = [pc |-> "done", op |-> o, init |-> FALSE, k |-> k,
                    cs |-> <<>>, sims |-> <<>>, mock |-> FALSE,
                    res |-> ragGetRelevantContext(FALSE, <<>>, <<>>, k, TRUE)]
     ELSE IF o = "searchDocuments" /\ ~initialized
     THEN asked' = [pc |-> "done", op |-> o, init |-> FALSE, k |-> k,
                    cs |-> <<>>, sims |-> <<>>, mock |-> FALSE,
                    res |-> searchDocuments(FALSE, <<>>, <<>>, k, TRUE)]
     ELSE asked' = [pc |-> "pending", op |-> o, init |-> initialized, k |-> k]
  /\ UNCHANGED <<initialized, chunks, embeddings, inits>>

\* The query embedding arrived (or, the call having failed, the mock
\* vector did): the chunks are scored against it and the call returns.
AskEnd(embOk, sims) ==
  /\ asked.pc = "pending"
  /\ asked' = [pc |-> "done", op |-> asked.op, init |-> asked.init,
               k |-> asked.k, cs |-> chunks, sims |-> sims,
               mock |-> generateEmbedding(embOk).mock,
               res |-> IF asked.op = "getRelevantContext"
                       THEN ragGetRelevantContext(TRUE, chunks, sims, asked.k,
                                                  embOk)
                       ELSE IF asked.op = "searchDocuments"
                       THEN searchDocuments(TRUE, chunks, sims, asked.k, embOk)
                       ELSE [threw |-> search(chunks, sims, asked.k, embOk).threw,
                             error |-> "",
                             value |-> search(chunks, sims, asked.k, embOk).value]]
  /\ embeddings' = EmbeddingsAfterSearch(embeddings, chunks)
  /\ UNCHANGED <<initialized, chunks, inits>>

\* addDocument(d) called on the store directly, with a provider whose
\* vectors have length dim: the chunks and their vectors are stored.
StoreAdd(d, dim) ==
  /\ d \notin Range(chunks)
  /\ chunks' = chunks \o ChunksOf(d)
  /\ embeddings' = SetEmbeddings(embeddings, d, dim)
  /\ UNCHANGED <<initialized, inits, asked>>

(***************************************************************************)
(* Initial states and specifications.                                      *)
(***************************************************************************)
(***************************************************************************)
(* PluginManager.processMessage in time.  One tick is one second.  The     *)
(* math plugin has no await and settles at once; the weather plugin awaits *)
(* an HTTP request that axios aborts after its timeout; the custom plugin  *)
(* awaits without a timeout.  The manager returns the plugin's promise and *)
(* starts no timer of its own.                                             *)
(***************************************************************************)
\* Seconds of waiting that are followed.
MaxTicks == 6
\* axios.get(..., {timeout: 5000}) of fetchWeatherData, in seconds.
AxiosTimeout == 5
\* The budget of the design notes ("5-second timeout to plugin execution").
TimeoutBudget == 5

\* Whether execute settles without waiting for anything.
Immediate(plugin, outcome) ==
  \/ plugin = NoPlugin
  \/ plugin = "math"
  \/ plugin = "weather" /\ outcome = "no_input"

\* L24-36: the lookup, and execute up to its first await.
CallStart(input, outcome) ==
  /\ call.pc = "idle"
  /\ LET plugin == getPlugin(plugins, input)
     IN  call' = IF Immediate(plugin, outcome)
                 THEN [pc |-> "done", input |-> input, plugin |-> plugin,
                       elapsed |-> 0,
                       run |-> pmProcessMessage(plugins, input, outcome)]
                 ELSE [pc |-> "executing", input |-> input, plugin |-> plugin,
                       elapsed |-> 0, run |-> Null]

\* A second passes while execute is pending; the weather request does not
\* outlive its axios timeout.
Tick ==
  /\ call.pc = "executing"
  /\ call.elapsed < MaxTicks
  /\ call.plugin = "weather" => call.elapsed < AxiosTimeout
  /\ call' = [call EXCEPT !.elapsed = @ + 1]

\* The pending execute settles and with it processMessage (L36); at the
\* axios timeout the weather request fails.
CallSettle(outcome) ==
  /\ call.pc = "executing"
  /\ (call.plugin = "weather" /\ call.elapsed = AxiosTimeout) => outcome = "error"
  /\ call' = [call EXCEPT !.pc = "done",
                          !.run = pmProcessMessage(plugins, call.input, outcome)]

\* The caller takes the result.
CallReturn ==
  /\ call.pc = "done"
  /\ call' = NoCall

(***************************************************************************)
(* DocumentProcessor.createChunks.  A text is a sequence of words joined   *)
(* by single spaces.  It is written as a sequence of runs: a run is the    *)
(* words from..to of sentence s, each len characters long.                 *)
(***************************************************************************)
CHUNK_SIZE == 1000
CHUNK_OVERLAP == 200
\* Sentences in one document.
MaxSentences == 4

\* The sentences a document is made of: how many words, of what length.
\* One word longer than CHUNK_SIZE; 899, 399 and 101 characters.
SentenceShapes ==
  {[words |-> 1, len |-> 1200], [words |-> 20, len |-> 44],
   [words |-> 40, len |-> 9], [words |-> 2, len |-> 50]}

Documents ==
  UNION {[1..n -> SentenceShapes] : n \in 0..MaxSentences}

\* splitIntoSentences: the trimmed, non-empty sentences in document order.
splitIntoSentences(doc) ==
  [i \in DOMAIN doc |->
     <<[s |-> i, from |-> 1, to |-> doc[i].words, len |-> doc[i].len]>>]

WordsIn(run) == run.to - run.from + 1

\* The number of words of the first n runs, and their characters.
RECURSIVE WordCount(_, _)
WordCount(text, n) ==
  IF n = 0 THEN 0 ELSE WordsIn(text[n]) + WordCount(text, n - 1)

RECURSIVE SumLen(_, _)
SumLen(text, n) ==
  IF n = 0 THEN 0 ELSE WordsIn(text[n]) * text[n].len + SumLen(text, n - 1)

\* String.length of the words joined by single spaces.
TextLen(text) ==
  IF text = <<>> THEN 0
  ELSE SumLen(text, Len(text)) + WordCount(text, Len(text)) - 1

\* words.slice(-k) for k > 0: the last k words, all of them when there are
\* fewer.
RECURSIVE LastWords(_, _)
LastWords(text, k) ==
  IF k = 0 \/ text = <<>> THEN <<>>
  ELSE LET last == text[Len(text)]
       IN  IF WordsIn(last) >= k
           THEN <<[last EXCEPT !.from = last.to - k + 1]>>
           ELSE LastWords(SubSeq(text, 1, Len(text) - 1), k - WordsIn(last))
                  \o <<last>>

\* L186-190: the last floor(CHUNK_OVERLAP / 6) words of the chunk, a space,
\* the next sentence.
applyOverlap(currentChunk, nextSentence) ==
  LastWords(currentChunk, CHUNK_OVERLAP \div 6) \o nextSentence

\* A createChunks that drops what is left in the buffer after the loop.
FlushNever(out, currentChunk) == out

\* L150-152: the buffer left after the loop becomes the last chunk.
Flush(out, currentChunk) ==
  IF currentChunk # <<>> THEN Append(out, currentChunk) ELSE out

\* L138-148: the loop over the sentences, from sentence i on.
RECURSIVE createChunksFrom(_, _, _, _)
createChunksFrom(sentences, i, currentChunk, out) ==
  IF i > Len(sentences) THEN Flush(out, currentChunk)
  ELSE LET potentialChunk == currentChunk \o sentences[i]
       IN  IF TextLen(potentialChunk) > CHUNK_SIZE /\ currentChunk # <<>>
           THEN createChunksFrom(sentences, i + 1,
                                 applyOverlap(currentChunk, sentences[i]),
                                 Append(out, currentChunk))
           ELSE createChunksFrom(sentences, i + 1, potentialChunk, out)

createChunks(doc) == createChunksFrom(splitIntoSentences(doc), 1, <<>>, <<>>)

(***************************************************************************)
(* OpenAIEmbeddingProvider.  A text is named by a number; a vector is      *)
(* written as the text it embeds (0 for the random mock vector), whether   *)
(* it is the mock, and its length.                                         *)
(***************************************************************************)
\* Texts, and the most texts handed to one generateEmbeddings call.
MaxTexts == 3
Texts == 1..MaxTexts
TextLists == UNION {[1..n -> Texts] : n \in 0..MaxTexts}

\* The key is set and the API answers; the key is missing (getClient
\* throws); the API call fails (rate limit, network, authentication).
EmbedOutcomes == {"ok", "no_key", "error"}

\* L50-52: Array.from({length: 1536}, () => Math.random() - 0.5)
getMockEmbedding == [of |-> 0, mock |-> TRUE, length |-> EmbeddingLength]

\* response.data[i].embedding of text-embedding-3-small.
ModelEmbedding(text) == [of |-> text, mock |-> FALSE, length |-> EmbeddingLength]

\* generateEmbeddings with getClient() called before the try block.
generateEmbeddingsUnguarded(texts, outcome) ==
  IF outcome = "ok"
  THEN [threw |-> FALSE, value |-> [i \in DOMAIN texts |-> ModelEmbedding(texts[i])]]
  ELSE IF outcome = "no_key" THEN [threw |-> TRUE, value |-> <<>>]
  ELSE [threw |-> FALSE, value |-> [i \in DOMAIN texts |-> getMockEmbedding]]

\* L34-48: one vector per item of the response, or one mock per text.
generateEmbeddings(texts, outcome) ==
  IF outcome = "ok"
  THEN [threw |-> FALSE, value |-> [i \in DOMAIN texts |-> ModelEmbedding(texts[i])]]
  ELSE [threw |-> FALSE, value |-> [i \in DOMAIN texts |-> getMockEmbedding]]

\* L20-32: the vector of the response, or the mock.
generateEmbeddingOf(text, outcome) ==
  IF outcome = "ok" THEN [threw |-> FALSE, value |-> ModelEmbedding(text)]
  ELSE [threw |-> FALSE, value |-> getMockEmbedding]

\* A caller asks the provider for one vector or for a list of them.
Embed ==
  /\ calc.pc = "input"
  /\ calc' = [calc EXCEPT
       !.pc = "done",
       !.res = IF calc.fn = "generateEmbedding"
               THEN generateEmbeddingOf(calc.texts[1], calc.outcome)
               ELSE generateEmbeddings(calc.texts, calc.outcome)]

\* processMarkdownFile hands a document to createChunks.
CreateChunks ==
  /\ calc.pc = "input"
  /\ calc' = [pc |-> "done", doc |-> calc.doc,
              sentences |-> splitIntoSentences(calc.doc),
              chunks |-> createChunks(calc.doc)]

(***************************************************************************)
(* Time.  updateSession stamps last_active and writes the record with      *)
(* SETEX 86400; Redis drops the key when that time has passed.  The unit   *)
(* of time is 12 hours.                                                    *)
(***************************************************************************)
\* SETEX key 86400: 24 hours.
TTL == 2
\* cleanup(maxAge = 86400000): 24 hours.
DefaultMaxAge == 2
\* How far the clock runs, and how many store calls are made.
MaxTime == 3
MaxCalls == 3

NoStamp == [last_active |-> 0, expires |-> 0]

\* A SET that keeps the time to live the key already has.
ExpiryKept(old, t) == IF old = NoStamp THEN t + TTL ELSE old.expires

\* L100-104: setEx(key, 86400, ...) gives the key the full time to live.
Expiry(old, t) == t + TTL

\* L93 and L100-104: the record written at time t.
Stamped(old, t) == [last_active |-> t, expires |-> Expiry(old, t)]

\* The stamps after a step: none for an absent key, new ones for the keys
\* the step wrote, the old ones otherwise.
Restamp(written) ==
  stamps' = [sid \in SessionIds |->
               IF store'[sid] = Null THEN NoStamp
               ELSE IF sid \in written THEN Stamped(stamps[sid], now)
               ELSE stamps[sid]]

\* Time passes; a key whose time to live is over is gone (the index set
\* has no time to live).
Tick12h ==
  /\ now < MaxTime
  /\ now' = now + 1
  /\ store' = [sid \in SessionIds |->
                IF store[sid] # Null /\ stamps[sid].expires <= now + 1
                THEN Null ELSE store[sid]]
  /\ stamps' = [sid \in SessionIds |->
                 IF store'[sid] = Null THEN NoStamp ELSE stamps[sid]]
  /\ UNCHANGED <<index, faults, issued, pc, op, snap, ret>>

\* A cleanup that deletes every session it reads.
IsStaleAlways(stamp, now0, maxAge) == TRUE

\* L166: (now - session.last_active.getTime()) > maxAge
IsStale(stamp, now0, maxAge) == now0 - stamp.last_active > maxAge

\* getSession(sessionId) called directly.
GetStart(p) ==
  /\ Free(p)
  /\ issued < MaxCalls
  /\ issued' = issued + 1
  /\ \E sessionId \in Targets :
       op' = [op EXCEPT ![p] = [name |-> "getSession", sid |-> sessionId]]
  /\ pc' = [pc EXCEPT ![p] = "get_read"]
  /\ ret' = [ret EXCEPT ![p] = NoRet]
  /\ UNCHANGED <<store, index, faults, snap>>

GetRead(p) ==
  /\ pc[p] = "get_read"
  /\ agent[p].pc = "idle"
  /\ \E ok \in Outcomes :
       /\ snap' = [snap EXCEPT ![p] = getSession(op[p].sid, ok)]
       /\ faults' = IF ok THEN faults ELSE faults + 1
  /\ pc' = [pc EXCEPT ![p] = "ret"]
  /\ UNCHANGED <<store, index, issued, op, ret>>

\* The orders in which SMEMBERS may list a set.
Orderings(S) ==
  {s \in [1..Cardinality(S) -> S] : \A i, j \in DOMAIN s : i # j => s[i] # s[j]}

\* listSessions(): the members of the index set, or [] when SMEMBERS failed.
listSessions(ok) == IF ok THEN Orderings(index) ELSE {<<>>}

ListStart(p) ==
  /\ Free(p)
  /\ issued < MaxCalls
  /\ issued' = issued + 1
  /\ op' = [op EXCEPT ![p] = [name |-> "listSessions"]]
  /\ pc' = [pc EXCEPT ![p] = "list_read"]
  /\ ret' = [ret EXCEPT ![p] = NoRet]
  /\ UNCHANGED <<store, index, faults, snap>>

ListRead(p) ==
  /\ pc[p] = "list_read"
  /\ \E ok \in Outcomes :
       /\ \E ids \in listSessions(ok) :
            ret' = [ret EXCEPT ![p] = [threw |-> FALSE, wrote |-> FALSE,
                                       value |-> ids]]
       /\ faults' = IF ok THEN faults ELSE faults + 1
  /\ pc' = [pc EXCEPT ![p] = "ret"]
  /\ UNCHANGED <<store, index, issued, op, snap>>

(***************************************************************************)
(* cleanup(maxAge): listSessions, then for each id getSession and, for a   *)
(* stale session, deleteSession; any exception ends the sweep and 0 is     *)
(* returned.  ids is what is left to visit; deleted lists the sessions     *)
(* whose DEL took effect.                                                  *)
(***************************************************************************)
CleanupStart(p, maxAge) ==
  /\ Free(p)
  /\ issued < MaxCalls
  /\ issued' = issued + 1
  /\ op' = [op EXCEPT ![p] = [name |-> "cleanup", maxAge |-> maxAge,
                              ids |-> <<>>, now0 |-> 0, cleaned |-> 0,
                              deleted |-> {}, judged |-> {}]]
  /\ pc' = [pc EXCEPT ![p] = "cl_list"]
  /\ ret' = [ret EXCEPT ![p] = NoRet]
  /\ UNCHANGED <<store, index, faults, snap>>

\* The sweep goes on with the ids left, or returns its count (L172-173).
CleanupGoOn(p, ids, cleaned) ==
  IF ids = <<>>
  THEN /\ pc' = [pc EXCEPT ![p] = "ret"]
       /\ ret' = [ret EXCEPT ![p] = [threw |-> FALSE, wrote |-> FALSE,
                                     value |-> cleaned]]
  ELSE /\ pc' = [pc EXCEPT ![p] = "cl_get"]
       /\ ret' = ret

\* L160-161: the ids arrive; now = Date.now().
CleanupList(p) ==
  /\ pc[p] = "cl_list"
  /\ \E ok \in Outcomes :
       /\ \E ids \in listSessions(ok) :
            /\ op' = [op EXCEPT ![p].ids = ids, ![p].now0 = now]
            /\ CleanupGoOn(p, ids, 0)
       /\ faults' = IF ok THEN faults ELSE faults + 1
  /\ UNCHANGED <<store, index, issued, snap>>

\* L165-166: the session arrives; a stale one is deleted.
CleanupGet(p) ==
  /\ pc[p] = "cl_get"
  /\ \E ok \in Outcomes :
       LET sid == Head(op[p].ids)
           session == getSession(sid, ok)
       IN  /\ faults' = IF ok THEN faults ELSE faults + 1
           /\ IF session # Null /\ IsStale(stamps[sid], op[p].now0, op[p].maxAge)
              THEN /\ op' = [op EXCEPT ![p].judged = @ \cup {sid}]
                   /\ pc' = [pc EXCEPT ![p] = "cl_del"]
                   /\ ret' = ret
              ELSE /\ op' = [op EXCEPT ![p].ids = Tail(@)]
                   /\ CleanupGoOn(p, Tail(op[p].ids), op[p].cleaned)
  /\ UNCHANGED <<store, index, issued, snap>>

\* L167-168 and L174-177: deleteSession ends; cleaned++ or, when it threw,
\* the catch returns 0.
CleanupDel(p) ==
  /\ pc[p] = "cl_del"
  /\ \E delOk \in Outcomes, remOk \in Outcomes :
       LET sid == Head(op[p].ids) IN
       /\ store' = IF delOk THEN [store EXCEPT ![sid] = Null] ELSE store
       /\ index' = IF remOk THEN index \ {sid} ELSE index
       /\ faults' = IF delOk /\ remOk THEN faults ELSE faults + 1
       /\ op' = [op EXCEPT ![p].ids = Tail(@),
                           ![p].cleaned = IF delOk /\ remOk THEN @ + 1 ELSE @,
                           ![p].deleted = IF delOk /\ store[sid] # Null
                                          THEN @ \cup {sid} ELSE @]
       /\ IF delOk /\ remOk
          THEN CleanupGoOn(p, Tail(op[p].ids), op[p].cleaned + 1)
          ELSE /\ pc' = [pc EXCEPT ![p] = "ret"]
               /\ ret' = [ret EXCEPT ![p] = [threw |-> FALSE, wrote |-> FALSE,
                                             value |-> 0]]
  /\ UNCHANGED <<issued, snap>>

StoreInit ==
  /\ store = [s \in SessionIds |-> Null]
  /\ index = {}
  /\ faults = 0
  /\ issued = 0
  /\ pc = [p \in Procs |-> "idle"]
  /\ op = [p \in Procs |-> NoOp]
  /\ snap = [p \in Procs |-> Null]
  /\ ret = [p \in Procs |-> NoRet]

\* The registry as the PluginManager constructor leaves it.
RegistryBuilt == plugins = initializePlugins /\ routed = <<>>

\* No request in flight; NoAgent: the store used without an agent.
AgentIdle == openai \in BOOLEAN /\ agent = [p \in Procs |-> IdleAgent]
NoAgent == openai = FALSE /\ agent = [p \in Procs |-> IdleAgent]

\* The RAG service as constructed; no router call being timed.
RagIdle ==
  /\ initialized = FALSE
  /\ chunks = <<>>
  /\ embeddings = [c \in Docs |-> NoEmbedding]
  /\ inits = [i \in InitCalls |-> IdleInit]
  /\ asked = NoAsk

RouterIdle == call = NoCall

\* The clock at the start; no key is stored.
TimeZero == now = 0 /\ stamps = [sid \in SessionIds |-> NoStamp]

\* No function is being applied.
NoCalc == [pc |-> "idle"]
NoWork == calc = NoCalc

\* A manager whose initializePlugins registers the custom plugin as well.
RouterPlugins == register(initializePlugins, CustomPlugin)

\* The session store under direct calls of its whole interface.
Init == StoreInit /\ RegistryBuilt /\ NoAgent /\ RagIdle /\ RouterIdle /\ NoWork /\ TimeZero

StoreStep ==
  \E p \in Procs :
    \/ AddStart(p)
    \/ AddRead(p)
    \/ AddWrite(p)
    \/ UpdStart(p)
    \/ UpdWrite(p)
    \/ RecentStart(p)
    \/ RecentRead(p)
    \/ DelStart(p)
    \/ DelExec(p)
    \/ Return(p)

Next == StoreStep /\ UNCHANGED <<registryVars, agentVars, extraVars>>

Spec == Init /\ [][Next]_vars

\* The session store under addMessage calls only.
AppendStep ==
  \E p \in Procs :
    \/ AddStart(p)
    \/ AddRead(p)
    \/ AddWrite(p)
    \/ Return(p)

AppendNext == AppendStep /\ UNCHANGED <<registryVars, agentVars, extraVars>>

SpecAppend == Init /\ [][AppendNext]_vars

\* The plugin registry and manager on their own, from an empty registry.
RegistryInit ==
  StoreInit /\ NoAgent /\ RagIdle /\ RouterIdle /\ NoWork /\ TimeZero /\ plugins = <<>> /\ routed = <<>>

RegistryStep ==
  \/ \E name \in PluginNames : Register(name)
  \/ \E input \in SampleMessages, outcome \in ExecOutcomes : Route(input, outcome)

RegistryNext == RegistryStep /\ UNCHANGED <<storeVars, agentVars, extraVars>>

SpecRegistry == RegistryInit /\ [][RegistryNext]_vars

\* processMessage requests on the constructed agent, sent one after the
\* other: a request starts when no other is in flight.
Quiet == \A q \in Procs : Idle(q)

AgentInit == StoreInit /\ RegistryBuilt /\ AgentIdle /\ RagIdle /\ RouterIdle /\ NoWork /\ TimeZero

AgentStep ==
  \E p \in Procs :
    \/ Quiet /\ PMStart(p)
    \/ PMAddRead(p)
    \/ PMAdd1Write(p)
    \/ PMRecentRead(p)
    \/ PMPlugin(p)
    \/ PMRag(p)
    \/ PMPromptSession(p)
    \/ PMPromptRecent(p)
    \/ PMLLM(p)
    \/ PMAdd2Write(p)
    \/ PMReturn(p)

AgentNext == AgentStep /\ UNCHANGED <<registryVars, extraVars>>

SpecAgent == AgentInit /\ [][AgentNext]_vars

\* The steps of a request that the program and its Redis connection take by
\* themselves.  The two remaining steps, PMRag and PMLLM, resume only when
\* the embeddings and the chat completions endpoint answer the request the
\* code awaits (no timeout is passed and no timer is started).
OwnStep(p) ==
  /\ \/ PMAddRead(p)
     \/ PMAdd1Write(p)
     \/ PMRecentRead(p)
     \/ PMPlugin(p)
     \/ PMPromptSession(p)
     \/ PMPromptRecent(p)
     \/ PMAdd2Write(p)
     \/ PMReturn(p)
  /\ UNCHANGED <<registryVars, extraVars>>

\* The same requests, where a step the program can take is eventually taken.
SpecAgentFair == SpecAgent /\ \A p \in Procs : WF_vars(OwnStep(p))

(***************************************************************************)
(* Requests on a session that earlier requests have filled.  The session   *)
(* "s1" starts with the messages of earlier exchanges (a user message and  *)
(* the assistant's answer in turn, older ones first), so that the window   *)
(* of getRecentMessages(sessionId, 10) is shorter than the session.        *)
(***************************************************************************)
\* Most messages stored before the first request of a behaviour.
MaxPrior == 11
PriorCounts == {0, HistoryLimit - 1, MaxPrior}

\* The i-th of n earlier messages; timestamps before those of the requests.
PriorMessage(i, n) ==
  ChatMessage(IF i % 2 = 1 THEN "user" ELSE "assistant",
              IF i % 2 = 1 THEN MsgNone ELSE Degraded, i - n - 1)

\* The record updateSession stored last: message_count is the list's length.
PriorSession(sessionId, n) ==
  [session_id |-> sessionId,
   messages |-> [i \in 1..n |-> PriorMessage(i, n)],
   message_count |-> n]

HistoryInit ==
  /\ \E n \in PriorCounts :
       store = [s \in SessionIds |->
                  IF s = "s1" /\ n > 0 THEN PriorSession(s, n) ELSE Null]
  /\ index = {s \in SessionIds : store[s] # Null}
  /\ faults = 0
  /\ issued = 0
  /\ pc = [p \in Procs |-> "idle"]
  /\ op = [p \in Procs |-> NoOp]
  /\ snap = [p \in Procs |-> Null]
  /\ ret = [p \in Procs |-> NoRet]
  /\ now = 0
  /\ stamps = [s \in SessionIds |->
                 IF store[s] # Null THEN Stamped(NoStamp, 0) ELSE NoStamp]
  /\ RegistryBuilt /\ AgentIdle /\ RagIdle /\ RouterIdle /\ NoWork

SpecHistory == HistoryInit /\ [][AgentNext]_vars

(***************************************************************************)
(* processMessage requests on one session that overlap: a request may      *)
(* start while another is at one of its awaits.  The first request sends   *)
(* a greeting, the later ones a calculation.                               *)
(***************************************************************************)
RaceStep ==
  \E p \in Procs :
    \/ /\ PMStart(p)
       /\ agent'[p].sid = "s1"
       /\ agent'[p].userMessage = IF issued = 0 THEN MsgNone ELSE MsgMath
    \/ PMAddRead(p)
    \/ PMAdd1Write(p)
    \/ PMRecentRead(p)
    \/ PMPlugin(p)
    \/ PMRag(p)
    \/ PMPromptSession(p)
    \/ PMPromptRecent(p)
    \/ PMLLM(p)
    \/ PMAdd2Write(p)
    \/ PMReturn(p)

RaceNext == RaceStep /\ UNCHANGED <<registryVars, extraVars>>

SpecRace == AgentInit /\ [][RaceNext]_vars

(***************************************************************************)
(* addMessage calls on a session that is one message short of, or at, the  *)
(* length the README gives for stored histories ("conversation pruning to  *)
(* keep last 20 messages only").                                           *)
(***************************************************************************)
PruneLimit == 20
GrowthCounts == {PruneLimit - 1, PruneLimit}

GrowthInit ==
  /\ \E n \in GrowthCounts :
       store = [s \in SessionIds |->
                  IF s = "s1" THEN PriorSession(s, n) ELSE Null]
  /\ index = {s \in SessionIds : store[s] # Null}
  /\ faults = 0
  /\ issued = 0
  /\ pc = [p \in Procs |-> "idle"]
  /\ op = [p \in Procs |-> NoOp]
  /\ snap = [p \in Procs |-> Null]
  /\ ret = [p \in Procs |-> NoRet]
  /\ now = 0
  /\ stamps = [s \in SessionIds |->
                 IF store[s] # Null THEN Stamped(NoStamp, 0) ELSE NoStamp]
  /\ RegistryBuilt /\ NoAgent /\ RagIdle /\ RouterIdle /\ NoWork

SpecGrowth == GrowthInit /\ [][AppendNext]_vars

\* Every store operation, possibly overlapping, on the filled session.
SpecStored == GrowthInit /\ [][Next]_vars

(***************************************************************************)
(* The RAG service: initialize calls, possibly concurrent, and query calls *)
(* with the default result counts.                                         *)
(***************************************************************************)
LikeSims == {[i \in DOMAIN chunks |-> MaxSim]}

\* The embedding calls of one initialize call answer in document order.
NextDoc(i, d) == \A e \in inits[i].pending : d <= e

RagStep ==
  \/ \E i \in InitCalls : InitStart(i) \/ InitLoad(i) \/ InitFinish(i)
  \/ \E i \in InitCalls, d \in Docs : NextDoc(i, d) /\ InitAdd(i, d)
  \/ AskStart("getRelevantContext", DefaultMaxResults)
  \/ AskStart("searchDocuments", DefaultTopK)
  \/ \E sims \in LikeSims : AskEnd(TRUE, sims)

RagNext ==
  RagStep /\ UNCHANGED <<storeVars, registryVars, agentVars, routerVars, workVars, timeVars>>

SpecRag == Init /\ [][RagNext]_vars

(***************************************************************************)
(* Queries on the index one initialize call builds: every result count     *)
(* and every outcome of the similarity computation.                        *)
(***************************************************************************)
QueryOps == {"getRelevantContext", "searchDocuments", "search"}

SearchStep ==
  \/ InitStart(1) \/ InitLoad(1) \/ InitFinish(1)
  \/ \E d \in Docs : InitAdd(1, d)
  \/ \E o \in QueryOps, k \in 0..(Len(chunks) + 1) : AskStart(o, k)
  \/ \E embOk \in BOOLEAN, sims \in [DOMAIN chunks -> Sims] : AskEnd(embOk, sims)

SearchNext ==
  SearchStep /\ UNCHANGED <<storeVars, registryVars, agentVars, routerVars, workVars, timeVars>>

SpecSearch == Init /\ [][SearchNext]_vars

(***************************************************************************)
(* AIAgent.buildSystemPrompt.  The prompt is the list of its sections, in  *)
(* the order the template and the appending ifs put them; a section        *)
(* carries what the code interpolates into it.  The two store reads the    *)
(* function awaits are its inputs, with the other arguments.               *)
(***************************************************************************)
\* Most messages stored in the session the prompt is built for.
MaxStored == 3

NoHistory == "No previous conversation history."

\* PluginResult.contextInfo as the plugins set it (the math plugin and the
\* custom plugin set none).
contextInfo(name, outcome) ==
  IF name # "weather" THEN ""
  ELSE IF outcome = "ok" THEN "Weather data for location"
  ELSE IF outcome = "no_input"
  THEN "User requested weather information but did not specify a location."
  ELSE "Unable to retrieve weather information at the moment."

\* The result pluginManager.processMessage hands to the prompt.
PromptResult(name, outcome) ==
  LET r == execute(name, outcome).result
  IN  [success |-> r.success, error |-> r.error, pluginUsed |-> r.pluginUsed,
       contextInfo |-> contextInfo(name, outcome)]

PromptResults ==
  {Null} \cup {PromptResult(name, outcome) :
                 name \in {"weather", "math"}, outcome \in ExecOutcomes}

\* L129: session?.metadata?.message_count || 0
MessageCountOf(session) == IF session = Null THEN 0 ELSE session.message_count

\* a || b on strings.
OrElse(a, b) == IF a = "" THEN b ELSE a

\* this stands for what the function reads through this: the session and the
\* recent messages the store returned, the registered plugins and the
\* configured system prompt.
buildSystemPrompt(sessionId, relevantContext, pluginResult, this) ==
  LET session == this.session
      recentMessages == this.recentMessages
      availablePlugins == this.availablePlugins
      systemPrompt == this.systemPrompt
      memorySummary ==
        IF Len(recentMessages) > 0
        THEN [i \in DOMAIN recentMessages |->
                <<recentMessages[i].role, recentMessages[i].content>>]
        ELSE <<NoHistory>>
      template ==
        << [name |-> "base", content |-> <<>>],
           [name |-> "capabilities", content |-> availablePlugins],
           [name |-> "session",
            content |-> <<sessionId, MessageCountOf(session)>>],
           [name |-> "memory", content |-> memorySummary] >>
      knowledge ==
        IF relevantContext # ""
        THEN <<[name |-> "context", content |-> <<relevantContext>>]>>
        ELSE <<>>
      plugin ==
        IF pluginResult # Null /\ pluginResult.success
             /\ pluginResult.contextInfo # ""
        THEN <<[name |-> "plugin",
                content |-> <<OrElse(pluginResult.pluginUsed, "unknown"),
                              pluginResult.contextInfo>>]>>
        ELSE IF pluginResult # Null /\ ~pluginResult.success
        THEN <<[name |-> "plugin",
                content |-> <<OrElse(pluginResult.error, "Unknown error"),
                              OrElse(pluginResult.contextInfo,
                                     "No additional context")>>]>>
        ELSE <<>>
      configured ==
        IF systemPrompt # ""
        THEN <<[name |-> "configured", content |-> <<systemPrompt>>]>>
        ELSE <<>>
  IN  template \o knowledge \o plugin \o configured

\* The arguments and reads of one buildSystemPrompt call.
PromptInputs ==
  {[pc |-> "input", sessionId |-> "s1", stored |-> stored, getOk |-> getOk,
    recentOk |-> recentOk, availablePlugins |-> ps,
    relevantContext |-> getRelevantContext(rag).value,
    pluginResult |-> result, systemPrompt |-> sp] :
     stored \in {Null} \cup {PriorSession("s1", n) : n \in 1..MaxStored},
     getOk \in Outcomes, recentOk \in Outcomes,
     ps \in {initializePlugins, RouterPlugins}, rag \in RagOutcomes,
     result \in PromptResults, sp \in {"", "Answer briefly."}}

\* L127-180: both reads answer and the prompt is put together.
BuildSystemPrompt ==
  /\ calc.pc = "input"
  /\ LET session == IF calc.getOk THEN calc.stored ELSE Null
         recentMessages ==
           RecentOf(IF calc.recentOk THEN calc.stored ELSE Null, SummaryLimit)
     IN  calc' = [pc |-> "done", in |-> calc,
                  recentMessages |-> recentMessages,
                  prompt |-> buildSystemPrompt(calc.sessionId,
                               calc.relevantContext, calc.pluginResult,
                               [session |-> session,
                                recentMessages |-> recentMessages,
                                availablePlugins |-> calc.availablePlugins,
                                systemPrompt |-> calc.systemPrompt])]

PromptInit ==
  /\ StoreInit /\ RegistryBuilt /\ NoAgent /\ RagIdle /\ RouterIdle /\ TimeZero
  /\ calc \in PromptInputs

PromptNext ==
  BuildSystemPrompt
    /\ UNCHANGED <<storeVars, registryVars, agentVars, ragVars, routerVars, timeVars>>

SpecPrompt == PromptInit /\ [][PromptNext]_vars

(***************************************************************************)
(* POST /message: validateAgentRequest, processMessage, and the error      *)
(* handler for whatever the route throws.  A string is known by its        *)
(* lengths: leading whitespace, the part from its first to its last        *)
(* non-whitespace character (core), trailing whitespace.  A whitespace-    *)
(* only string has its whole length in lead.  zod runs the checks of a     *)
(* string schema in the order they were added, so min and max see the      *)
(* string as sent and trim comes after them.                               *)
(***************************************************************************)
MaxMessage == 4000
MaxSessionId == 100
\* Most whitespace characters on one side of a message.
MaxPad == 1

NotAString == [missing |-> TRUE]

MessageInputs ==
  {NotAString}
    \cup {[lead |-> l, core |-> 0, trail |-> 0] : l \in 0..MaxPad}
    \cup {[lead |-> l, core |-> c, trail |-> t] :
            l \in 0..MaxPad, t \in 0..MaxPad,
            c \in {1, MaxMessage - 1, MaxMessage, MaxMessage + 1}}

\* A session id: its length, and whether all its characters are letters,
\* digits, underscores or hyphens.
SessionIdInputs ==
  {NotAString, [len |-> 0, legal |-> TRUE]}
    \cup {[len |-> n, legal |-> b] :
            n \in {1, MaxSessionId, MaxSessionId + 1}, b \in BOOLEAN}

RawLen(s) == s.lead + s.core + s.trail

\* String.prototype.trim
trim(s) == [lead |-> 0, core |-> s.core, trail |-> 0]

\* L5-8: z.string().min(1).max(4000).trim()
MessageIssues(m) ==
  IF m = NotAString THEN <<"Required">>
  ELSE (IF RawLen(m) < 1 THEN <<"Message cannot be empty">> ELSE <<>>)
       \o (IF RawLen(m) > MaxMessage
           THEN <<"Message too long (maximum 4000 characters)">> ELSE <<>>)

\* L9-13: z.string().min(1).max(100).regex(/^[a-zA-Z0-9_-]+$/).trim()
SessionIdIssues(id) ==
  IF id = NotAString THEN <<"Required">>
  ELSE (IF id.len < 1 THEN <<"Session ID is required">> ELSE <<>>)
       \o (IF id.len > MaxSessionId
           THEN <<"Session ID too long (maximum 100 characters)">> ELSE <<>>)
       \o (IF id.len < 1 \/ ~id.legal
           THEN <<"Session ID can only contain letters, numbers, underscores, and hyphens">>
           ELSE <<>>)

\* The error classes of errorHandler.ts, and an Error thrown by a
\* dependency (statusCode 0: the field is undefined).
ErrorStack(name, message) == <<name, message, "at <anonymous>">>
ValidationError(message) ==
  [name |-> "ValidationError", statusCode |-> 400, isOperational |-> TRUE,
   message |-> message, stack |-> ErrorStack("ValidationError", message)]
PlainError(message) ==
  [name |-> "Error", statusCode |-> 0, isOperational |-> FALSE,
   message |-> message, stack |-> ErrorStack("Error", message)]

\* L35-45: the parsed request, or a ValidationError with the first issue.
validateAgentRequest(data) ==
  LET issues == MessageIssues(data.message) \o SessionIdIssues(data.sessionId)
  IN  IF issues = <<>>
      THEN [threw |-> FALSE,
            value |-> [message |-> trim(data.message),
                       sessionId |-> data.sessionId]]
      ELSE [threw |-> TRUE,
            error |-> ValidationError("Validation failed: " \o issues[1])]

GenericMessage == "Something went wrong"
NodeEnvs == {"", "development", "production", "test"}
NoField == <<>>

\* L39-64: the status and the JSON body of the error response.
errorHandler(error, nodeEnv) ==
  LET statusCode == IF error.statusCode # 0 THEN error.statusCode ELSE 500
  IN  [status |-> statusCode,
       error |-> IF statusCode = 500 THEN "Internal server error"
                 ELSE "Bad request",
       message |-> IF error.isOperational THEN error.message
                   ELSE GenericMessage,
       stack |-> IF nodeEnv = "development" THEN error.stack ELSE NoField]

\* What aiAgent.processMessage does for the route: a reply, or the error of
\* a store command or of a plugin that it lets through.
ProcessOutcomes == {"reply", "store", "plugin"}
InternalMessage(outcome) ==
  IF outcome = "store" THEN "connect ECONNREFUSED 127.0.0.1:6379"
  ELSE "custom plugin failed"

RouteInputs ==
  {[pc |-> "received", nodeEnv |-> env,
    body |-> [message |-> m, sessionId |-> id]] :
     env \in NodeEnvs, m \in MessageInputs, id \in SessionIdInputs}

\* agent.ts L31: the body is validated; a ValidationError goes to next().
RouteValidate ==
  /\ calc.pc = "received"
  /\ LET v == validateAgentRequest(calc.body)
     IN  calc' = IF v.threw
                 THEN [pc |-> "thrown", nodeEnv |-> calc.nodeEnv,
                       body |-> calc.body, error |-> v.error]
                 ELSE [pc |-> "validated", nodeEnv |-> calc.nodeEnv,
                       body |-> calc.body, request |-> v.value]

\* agent.ts L33-46: processMessage is awaited and its reply is sent.
RouteProcess ==
  /\ calc.pc = "validated"
  /\ \E outcome \in ProcessOutcomes :
       calc' = IF outcome = "reply"
               THEN [pc |-> "responded", nodeEnv |-> calc.nodeEnv,
                     body |-> calc.body, failed |-> FALSE,
                     response |-> [status |-> 200,
                                   session_id |-> calc.request.sessionId]]
               ELSE [pc |-> "thrown", nodeEnv |-> calc.nodeEnv,
                     body |-> calc.body,
                     error |-> PlainError(InternalMessage(outcome))]

\* asyncHandler hands the rejection to errorHandler, which answers.
RouteError ==
  /\ calc.pc = "thrown"
  /\ calc' = [pc |-> "responded", nodeEnv |-> calc.nodeEnv,
              body |-> calc.body, failed |-> TRUE, thrown |-> calc.error,
              response |-> errorHandler(calc.error, calc.nodeEnv)]

RouteInit ==
  /\ StoreInit /\ RegistryBuilt /\ NoAgent /\ RagIdle /\ RouterIdle /\ TimeZero
  /\ calc \in RouteInputs

RouteNext ==
  (RouteValidate \/ RouteProcess \/ RouteError)
    /\ UNCHANGED <<storeVars, registryVars, agentVars, ragVars, routerVars, timeVars>>

SpecRoute == RouteInit /\ [][RouteNext]_vars

(***************************************************************************)
(* MathPlugin on the text of a message.  A text is the sequence of its     *)
(* tokens, separated by blanks where the message has them: words, numbers  *)
(* and one-character symbols.  The regular expressions of the plugin are   *)
(* applied token by token.                                                 *)
(***************************************************************************)
Num(n) == [t |-> "num", n |-> n, s |-> ""]
Sym(s) == [t |-> "sym", n |-> 0, s |-> s]
Word(w) == [t |-> "word", n |-> 0, s |-> w]

IsSym(tok, S) == tok.t = "sym" /\ tok.s \in S
IsWord(tok, S) == tok.t = "word" /\ tok.s \in S
Operators == {"+", "-", "*", "/", "^", "%"}

\* WeatherPlugin.canHandle (L12-16): a weather word, or in/at/for followed
\* by letters up to a question mark or the end.
WeatherCanHandleText(message) ==
  \/ \E i \in DOMAIN message : IsWord(message[i], {"weather", "temperature", "forecast"})
  \/ \E i \in DOMAIN message :
       /\ IsWord(message[i], {"in", "at", "for"})
       /\ i < Len(message) /\ message[i + 1].t = "word"
       /\ \A j \in (i + 1)..Len(message) :
            message[j].t = "word" \/ (j = Len(message) /\ IsSym(message[j], {"?"}))

\* MathPlugin.canHandle (L8-14)
MathCanHandleText(message) ==
  \/ \E i \in DOMAIN message :
       IsWord(message[i], {"Calculate", "calculate", "compute", "solve", "math", "square", "root", "power"})
  \/ \E i \in DOMAIN message : IsSym(message[i], Operators \cup {"=", "(", ")"})

\* The first index from i on whose token ends a captured group (? or .), or
\* the index after the last token.
RECURSIVE GroupEnd(_, _)
GroupEnd(message, i) ==
  IF i > Len(message) \/ IsSym(message[i], {"?", "."}) THEN i
  ELSE GroupEnd(message, i + 1)

\* The longest run num (op num)* that starts at i: the index of its last
\* token (i itself when no operator and number follow).
RECURSIVE RunEnd(_, _)
RunEnd(message, i) ==
  IF i + 2 <= Len(message) /\ IsSym(message[i + 1], Operators)
       /\ message[i + 2].t = "num"
  THEN RunEnd(message, i + 2) ELSE i

\* The matches of the third pattern (flag g): the runs with an operator,
\* from left to right, none overlapping.
RECURSIVE ArithmeticRuns(_, _)
ArithmeticRuns(message, i) ==
  IF i > Len(message) THEN <<>>
  ELSE IF message[i].t = "num" /\ RunEnd(message, i) > i
  THEN <<SubSeq(message, i, RunEnd(message, i))>>
         \o ArithmeticRuns(message, RunEnd(message, i) + 1)
  ELSE ArithmeticRuns(message, i + 1)

NoExpression == <<>>

\* L57-79.  match() with a g pattern returns the matched texts, so match[1]
\* of the third pattern is the second run.
extractExpression(message) ==
  LET verbs == {i \in 1..(Len(message) - 1) :
                  IsWord(message[i], {"Calculate", "calculate", "compute", "solve"})}
      whatIs == {i \in 2..(Len(message) - 1) :
                  /\ IsWord(message[i - 1], {"What", "what"})
                  /\ IsWord(message[i], {"is"})}
      runs == ArithmeticRuns(message, 1)
      numbers == {i \in DOMAIN message : message[i].t = "num"}
      operators == {i \in DOMAIN message : IsSym(message[i], Operators)}
  IN  IF verbs # {}
      THEN SubSeq(message, MinOf(verbs) + 1,
                  GroupEnd(message, MinOf(verbs) + 2) - 1)
      ELSE IF whatIs # {}
      THEN SubSeq(message, MinOf(whatIs) + 1,
                  GroupEnd(message, MinOf(whatIs) + 2) - 1)
      ELSE IF Len(runs) >= 2 THEN runs[2]
      ELSE IF Cardinality(numbers) >= 2 /\ Cardinality(operators) >= 1
      THEN SelectSeq(message, LAMBDA tok : tok.t # "word" /\ ~IsSym(tok, {"?", "="}))
      ELSE NoExpression

\* L82-85: every character that is not a digit, an operator, a parenthesis
\* or a dot is removed (so are the letters of a function name).
Sanitized(expression) ==
  SelectSeq(expression, LAMBDA tok : tok.t = "num" \/ IsSym(tok, Operators \cup {"(", ")", "."}))

RECURSIVE Depths(_, _, _)
Depths(expression, i, count) ==
  IF i > Len(expression) THEN <<count>>
  ELSE LET c == IF IsSym(expression[i], {"("}) THEN count + 1
                ELSE IF IsSym(expression[i], {")"}) THEN count - 1 ELSE count
       IN  <<c>> \o Depths(expression, i + 1, c)

\* L106-114
hasBalancedParentheses(expression) ==
  LET d == Depths(expression, 1, 0)
  IN  (\A i \in DOMAIN d : d[i] >= 0) /\ d[Len(d)] = 0

\* L98-104.  A ^ has become ** by now, two operators in a row.
isValidExpression(expression) ==
  /\ expression # <<>>
  /\ \A i \in DOMAIN expression : ~IsSym(expression[i], {"^"})
  /\ hasBalancedParentheses(expression)
  /\ \A i \in 1..(Len(expression) - 1) :
       ~(IsSym(expression[i], {"+", "-", "*", "/", "^"})
           /\ IsSym(expression[i + 1], {"+", "-", "*", "/", "^"}))

NaN == [t |-> "nan", n |-> 0, s |-> ""]

\* num (op num)* with op in + - *
IsFlat(e) ==
  /\ Len(e) % 2 = 1
  /\ \A i \in DOMAIN e :
       IF i % 2 = 1 THEN e[i].t = "num" ELSE IsSym(e[i], {"+", "-", "*"})

Splice(e, from, to, tok) ==
  SubSeq(e, 1, from - 1) \o <<tok>> \o SubSeq(e, to + 1, Len(e))

\* JavaScript arithmetic on a flat expression of whole numbers with +, -
\* and * (the operators of the messages below): products first, then sums
\* and differences from the left.
RECURSIVE EvalFlat(_)
EvalFlat(e) ==
  IF ~IsFlat(e) THEN NaN
  ELSE IF Len(e) = 1 THEN e[1]
  ELSE LET stars == {i \in DOMAIN e : IsSym(e[i], {"*"})}
           i == IF stars # {} THEN MinOf(stars) ELSE 2
           v == IF e[i].s = "*" THEN e[i - 1].n * e[i + 1].n
                ELSE IF e[i].s = "+" THEN e[i - 1].n + e[i + 1].n
                ELSE e[i - 1].n - e[i + 1].n
       IN  EvalFlat(Splice(e, i - 1, i + 1, Num(v)))

\* The value of a parenthesised expression: the innermost group first.  A
\* text JavaScript cannot evaluate gives NaN here (the call throws).
RECURSIVE Eval(_)
Eval(e) ==
  LET opens == {i \in DOMAIN e : IsSym(e[i], {"("})}
  IN  IF opens = {} THEN EvalFlat(e)
      ELSE LET from == MaxOf(opens)
               to == MinOf({j \in DOMAIN e : j > from /\ IsSym(e[j], {")"})})
               inner == EvalFlat(SubSeq(e, from + 1, to - 1))
           IN  IF inner = NaN THEN NaN
               ELSE Eval(Splice(e, from, to, inner))

\* L81-96: the value, or a throw.
evaluateExpression(expression) ==
  LET sanitized == Sanitized(expression)
  IN  IF ~isValidExpression(sanitized) \/ Eval(sanitized) = NaN
      THEN [threw |-> TRUE, value |-> 0]
      ELSE [threw |-> FALSE, value |-> Eval(sanitized).n]

\* L16-55: MathPlugin.execute on the text of the message.
MathExecuteText(message) ==
  LET expression == extractExpression(message)
  IN  IF expression = NoExpression
      THEN [success |-> FALSE, plugin |-> "math", expression |-> <<>>, result |-> 0]
      ELSE IF evaluateExpression(expression).threw
      THEN [success |-> FALSE, plugin |-> "math", expression |-> <<>>, result |-> 0]
      ELSE [success |-> TRUE, plugin |-> "math", expression |-> expression,
            result |-> evaluateExpression(expression).value]

\* The README's example, "Calculate 15 * 8 + sqrt(144)".
ReadmeMessage ==
  <<Word("Calculate"), Num(15), Sym("*"), Num(8), Sym("+"),
    Word("sqrt"), Sym("("), Num(144), Sym(")")>>

Operand(n, f) ==
  IF f = "" THEN <<Num(n)>> ELSE <<Word(f), Sym("("), Num(n), Sym(")")>>

\* Messages of the shape of the README's example.
MathMessages ==
  {prefix \o <<Num(a)>> \o <<Sym(o1)>> \o <<Num(8)>> \o <<Sym(o2)>>
     \o Operand(c, f) \o suffix :
     prefix \in {<<>>, <<Word("Calculate")>>, <<Word("What"), Word("is")>>,
                 <<Word("weather"), Word("in")>>},
     a \in {15, 2}, o1 \in {"+", "-", "*"}, o2 \in {"+", "-", "*"},
     c \in {144, 3}, f \in {"", "sqrt"}, suffix \in {<<>>, <<Sym("?")>>}}

\* PluginManager.processMessage with the two built-in plugins registered:
\* the first plugin in registration order that can handle the text runs.
\* Of a text the weather plugin takes, only that it did is recorded.
RouteText ==
  /\ calc.pc = "input"
  /\ calc' =
       [pc |-> "done", message |-> calc.message,
        result |-> IF WeatherCanHandleText(calc.message)
                   THEN [success |-> FALSE, plugin |-> "weather",
                         expression |-> <<>>, result |-> 0]
                   ELSE IF MathCanHandleText(calc.message)
                   THEN MathExecuteText(calc.message)
                   ELSE [success |-> FALSE, plugin |-> "", expression |-> <<>>,
                         result |-> 0]]

MathInit ==
  /\ StoreInit /\ RegistryBuilt /\ NoAgent /\ RagIdle /\ RouterIdle /\ TimeZero
  /\ calc \in {[pc |-> "input", message |-> m] : m \in MathMessages}

MathNext ==
  RouteText
    /\ UNCHANGED <<storeVars, registryVars, agentVars, ragVars, routerVars, timeVars>>

SpecMath == MathInit /\ [][MathNext]_vars

(***************************************************************************)
(* createChunks applied to one document.                                   *)
(***************************************************************************)
ChunksInit ==
  /\ StoreInit /\ RegistryBuilt /\ NoAgent /\ RagIdle /\ RouterIdle /\ TimeZero
  /\ calc \in {[pc |-> "input", doc |-> doc] : doc \in Documents}

ChunksNext ==
  CreateChunks
    /\ UNCHANGED <<storeVars, registryVars, agentVars, ragVars, routerVars, timeVars>>

SpecChunks == ChunksInit /\ [][ChunksNext]_vars

(***************************************************************************)
(* The session store in time: its calls made one after the other, while    *)
(* the clock runs and keys expire.  Writes, reads and deletions as before  *)
(* (MaxOps of them), then getSession, listSessions and cleanup calls up to *)
(* MaxCalls calls in all.                                                  *)
(***************************************************************************)
MaxAges == 0..DefaultMaxAge

\* The sessions the step of p wrote.
Written(p) == IF ret'[p].wrote THEN {op[p].sid} ELSE {}

SessionsStep ==
  \/ \E p \in Procs :
       /\ \/ Quiet /\ AddStart(p)
          \/ AddRead(p)
          \/ Quiet /\ UpdStart(p)
          \/ Quiet /\ RecentStart(p)
          \/ RecentRead(p)
          \/ Quiet /\ GetStart(p)
          \/ GetRead(p)
          \/ Quiet /\ ListStart(p)
          \/ ListRead(p)
          \/ Quiet /\ DelStart(p)
          \/ DelExec(p)
          \/ \E maxAge \in MaxAges : Quiet /\ CleanupStart(p, maxAge)
          \/ CleanupList(p)
          \/ CleanupGet(p)
          \/ CleanupDel(p)
          \/ Return(p)
       /\ Restamp({})
       /\ now' = now
  \/ \E p \in Procs :
       /\ AddWrite(p) \/ UpdWrite(p)
       /\ Restamp(Written(p))
       /\ now' = now
  \/ Tick12h

SessionsNext ==
  SessionsStep /\ UNCHANGED <<registryVars, agentVars, ragVars, routerVars, workVars>>

SpecSessions == Init /\ [][SessionsNext]_vars

(***************************************************************************)
(* addMessage and cleanup calls that overlap, while the clock runs.        *)
(***************************************************************************)
SweepStep ==
  \/ \E p \in Procs :
       /\ \/ AddStart(p)
          \/ AddRead(p)
          \/ \E maxAge \in MaxAges : CleanupStart(p, maxAge)
          \/ CleanupList(p)
          \/ CleanupGet(p)
          \/ CleanupDel(p)
          \/ Return(p)
       /\ Restamp({})
       /\ now' = now
  \/ \E p \in Procs :
       /\ AddWrite(p)
       /\ Restamp(Written(p))
       /\ now' = now
  \/ Tick12h

SweepNext ==
  SweepStep /\ UNCHANGED <<registryVars, agentVars, ragVars, routerVars, workVars>>

SpecSweep == Init /\ [][SweepNext]_vars

(***************************************************************************)
(* The embedding provider applied to one text or one list of texts.        *)
(***************************************************************************)
EmbedInputs ==
  {[pc |-> "input", fn |-> "generateEmbedding", texts |-> <<text>>,
    outcome |-> outcome, res |-> Null] :
     text \in Texts, outcome \in EmbedOutcomes}
  \cup
  {[pc |-> "input", fn |-> "generateEmbeddings", texts |-> texts,
    outcome |-> outcome, res |-> Null] :
     texts \in TextLists, outcome \in EmbedOutcomes}

EmbedInit ==
  /\ StoreInit /\ RegistryBuilt /\ NoAgent /\ RagIdle /\ RouterIdle /\ TimeZero
  /\ calc \in EmbedInputs

EmbedNext ==
  Embed /\ UNCHANGED <<storeVars, registryVars, agentVars, ragVars, routerVars, timeVars>>

SpecEmbed == EmbedInit /\ [][EmbedNext]_vars

(***************************************************************************)
(* The vector store used directly, with an embedding provider whose        *)
(* vectors need not all have one length.  cosineSimilarity is 0 for two    *)
(* vectors of different lengths.                                           *)
(***************************************************************************)
\* The similarities of a query vector of length qdim: 0 on a length
\* mismatch, any value otherwise.
CosineSims(qdim) ==
  {s \in [DOMAIN chunks -> {0, MaxSim}] :
     \A i \in DOMAIN chunks : embeddings[chunks[i]].dim # qdim => s[i] = 0}

\* Documents are interchangeable: they are added in the order of their names.
FirstAbsent(d) == \A e \in Docs : e < d => e \in Range(chunks)

IndexStep ==
  \/ \E d \in Docs, dim \in Dims : FirstAbsent(d) /\ StoreAdd(d, dim)
  \/ AskStart("search", DefaultTopK)
  \/ \E qdim \in Dims : \E sims \in CosineSims(qdim) : AskEnd(TRUE, sims)

IndexNext ==
  IndexStep /\ UNCHANGED <<storeVars, registryVars, agentVars, routerVars, workVars, timeVars>>

SpecIndex == Init /\ [][IndexNext]_vars

(***************************************************************************)
(* The plugin manager timed: one routed call at a time, on the registry as *)
(* built or on one that also holds the custom plugin.                      *)
(***************************************************************************)
RouterInit ==
  /\ StoreInit /\ NoAgent /\ RagIdle /\ RouterIdle /\ NoWork /\ TimeZero
  /\ plugins \in {initializePlugins, RouterPlugins}
  /\ routed = <<>>

RouterStep ==
  \/ \E input \in SampleMessages, outcome \in ExecOutcomes :
       CallStart(input, outcome)
  \/ Tick
  \/ \E outcome \in ExecOutcomes : CallSettle(outcome)
  \/ CallReturn

RouterNext ==
  RouterStep /\ UNCHANGED <<storeVars, registryVars, agentVars, ragVars, workVars, timeVars>>

SpecRouter == RouterInit /\ [][RouterNext]_vars

(***************************************************************************)
(* Properties of the memory store.                                         *)
(***************************************************************************)
Settled == \A p \in Procs : pc[p] \in {"idle", "ret"}
Completed == {p \in Procs : pc[p] = "ret" /\ op[p].name = "addMessage"}
CompletedOn(s) == {p \in Completed : op[p].sid = s}

\* C1: when N >= 2 addMessage calls on one session, with distinct content,
\* are issued concurrently and all have completed without a Redis failure,
\* the stored session holds all N messages and its count is N.
C1_NoLostAppend ==
  (Settled /\ faults = 0 /\ Cardinality(Completed) = issued) =>
    \A s \in SessionIds :
      Cardinality(CompletedOn(s)) >= 2 =>
        /\ store[s] # Null
        /\ \A p \in CompletedOn(s) : op[p].message \in Range(store[s].messages)
        /\ Len(store[s].messages) = Cardinality(CompletedOn(s))
        /\ store[s].message_count = Cardinality(CompletedOn(s))

\* C2: in every persisted session metadata.message_count equals the length
\* of the message list, whatever count the caller's session object carried.
C2_CountMatches ==
  \A s \in SessionIds :
    store[s] # Null => store[s].message_count = Len(store[s].messages)

\* An updateSession whose input count disagreed with its list has persisted.
C2_Witness ==
  \E p \in Procs :
    /\ pc[p] = "ret"
    /\ op[p].name = "updateSession"
    /\ ret[p].wrote /\ ~ret[p].threw
    /\ op[p].session.message_count # Len(op[p].session.messages)
    /\ store[op[p].sid] # Null
    /\ store[op[p].sid].messages = op[p].session.messages

\* The last Min(limit, n) messages of a list of n, in order.
LastOf(messages, limit) ==
  SubSeq(messages, Len(messages) - Min(limit, Len(messages)) + 1, Len(messages))

\* C7: getRecentMessages(sessionId, limit) returns the last min(limit, n)
\* messages of the session it read, in order, for every limit in 0..n+1, and
\* the empty list when it found no session.
C7_RecentIsLastMin ==
  \A p \in Procs :
    (pc[p] = "ret" /\ op[p].name = "getRecentMessages") =>
      ret[p].value = IF snap[p] = Null THEN <<>>
                     ELSE LastOf(snap[p].messages, op[p].limit)

\* C8: every completed addMessage leaves the messages stored before it as an
\* unchanged prefix of the stored list and puts its own message last.
C8_AppendOnly ==
  [][\A p \in Procs :
       (pc[p] = "add_write" /\ pc'[p] = "ret" /\ faults' = 0) =>
         /\ store'[op[p].sid] # Null
         /\ store'[op[p].sid].messages[Len(store'[op[p].sid].messages)]
              = op[p].message
         /\ store[op[p].sid] # Null =>
              IsPrefix(store[op[p].sid].messages, store'[op[p].sid].messages)
    ]_vars

(***************************************************************************)
(* Properties of the plugin registry and the plugin manager.               *)
(***************************************************************************)
\* C9: getPlugin returns the earliest-registered plugin whose canHandle
\* accepts the input and null when none does; with the built-in order
\* (weather, then math) an input both accept goes to the weather plugin.
C9_FirstRegisteredMatch ==
  /\ initializePlugins = <<"weather", "math">>
  /\ \A i \in DOMAIN routed :
       LET r == routed[i] IN
       /\ r.plugin = NoPlugin <=>
            \A j \in DOMAIN r.plugins : ~canHandle(r.plugins[j], r.input)
       /\ r.plugin # NoPlugin =>
            \E j \in DOMAIN r.plugins :
              /\ r.plugins[j] = r.plugin
              /\ canHandle(r.plugin, r.input)
              /\ \A h \in 1..(j - 1) : ~canHandle(r.plugins[h], r.input)
       /\ (/\ r.plugins = <<"weather", "math">>
           /\ WeatherCanHandle(r.input)
           /\ MathCanHandle(r.input)) => r.plugin = "weather"

\* A message both built-in plugins accept was looked up in the built-in order.
C9_Witness ==
  \E i \in DOMAIN routed :
    /\ routed[i].plugins = initializePlugins
    /\ WeatherCanHandle(routed[i].input) /\ MathCanHandle(routed[i].input)
    /\ routed[i].plugin = "weather"

\* C10: for one message the manager runs execute of at most one plugin, the
\* first-registered one that accepts it, and of no other plugin even when
\* that one's result is a failure.
C10_AtMostOneExecute ==
  \A i \in DOMAIN routed :
    LET r == routed[i]
        m == Matching(r.plugins, r.input)
    IN  /\ Len(r.run.executed) <= 1
        /\ m = {} => r.run.executed = <<>>
        /\ m # {} => r.run.executed = <<r.plugins[MinOf(m)]>>

\* Two plugins accepted the message, the first one's execute failed, and
\* only that one ran.
C10_Witness ==
  \E i \in DOMAIN routed :
    /\ Cardinality(Matching(routed[i].plugins, routed[i].input)) = 2
    /\ routed[i].run.result # Null
    /\ ~routed[i].run.result.success
    /\ routed[i].run.executed = <<routed[i].plugins[1]>>

(***************************************************************************)
(* Properties of AIAgent.processMessage.                                   *)
(***************************************************************************)
\* The stages of a request after its first addMessage.
LaterStages ==
  {"recent", "plugin", "rag", "prompt_session", "prompt_recent", "llm", "add2"}

UserMessageOf(p) == ChatMessage("user", agent[p].userMessage, agent[p].k)
AssistantMessageOf(p) == ChatMessage("assistant", agent[p].response, agent[p].k)

StoredIn(sessionId, message) ==
  store[sessionId] # Null /\ message \in Range(store[sessionId].messages)

C4_ReplyOnlyIfStored ==
  \A p \in Procs :
    agent[p].pc = "done" => agent[p].userStored /\ agent[p].asstStored

\* A write of the first addMessage failed and the request ended in an error.
C4_Witness ==
  \E p \in Procs :
    /\ agent[p].pc = "failed"
    /\ agent[p].failedAt = "add1"
    /\ faults > 0
    /\ ~StoredIn(agent[p].sid, UserMessageOf(p))

\* C5: when the completion throws or no client is configured the request
\* does not fail for it: the response is the fixed degraded message, which
\* is appended as the assistant message and returned.
C5_DegradedOnLLMFailure ==
  \A p \in Procs :
    LET a == agent[p] IN
    a.llm \in {"throw", "noclient"} =>
      /\ a.pc \in {"add2", "done", "failed"}
      /\ a.pc = "failed" => a.failedAt = "add2"
      /\ a.response = Degraded
      /\ pc[p] \in {"add_read", "add_write"} =>
           op[p].message = ChatMessage("assistant", Degraded, a.k)
      /\ a.pc = "done" =>
           /\ a.reply = Degraded
           /\ store[a.sid] # Null
           /\ store[a.sid].messages[Len(store[a.sid].messages)]
                = ChatMessage("assistant", Degraded, a.k)

\* The completion threw and the request returned the degraded message.
C5_Witness ==
  \E p \in Procs :
    /\ agent[p].pc = "done"
    /\ agent[p].llm = "throw"
    /\ agent[p].reply = Degraded
    /\ StoredIn(agent[p].sid, AssistantMessageOf(p))

ReturnedEarly == [IdleInit EXCEPT !.pc = "done"]

\* C16: an initialize call made once the service is initialized returns at
\* once: it reads no documents, inserts nothing and leaves the index as it
\* is, and a call that has returned does nothing more.
C16_InitializeIdempotent ==
  [][\A i \in InitCalls :
       /\ (initialized /\ inits[i].pc = "idle" /\ inits'[i].pc # "idle") =>
            inits'[i] = ReturnedEarly /\ chunks' = chunks
       /\ inits[i] = ReturnedEarly => inits'[i] = ReturnedEarly
    ]_vars

\* One call loaded the documents and completed, and a later call returned
\* without loading.
C16_Witness ==
  \E i, j \in InitCalls :
    /\ inits[i].pc = "done" /\ inits[i].loaded /\ inits[i].inserted > 0
    /\ inits[j] = ReturnedEarly
    /\ initialized

\* C17: after a failed initialize the service is uninitialized, and a
\* getRelevantContext or searchDocuments call made while it is uninitialized
\* ends in the not-initialized error, not in an empty result.
C17_UninitializedReported ==
  /\ (\A i \in InitCalls : inits[i].pc \in {"idle", "failed"}) => ~initialized
  /\ (/\ \E i \in InitCalls : inits[i].pc = "failed"
      /\ asked.pc = "done"
      /\ asked.op \in {"getRelevantContext", "searchDocuments"}
      /\ ~asked.init) =>
       asked.res.threw /\ asked.res.error = NotInitialized

\* C18: getRelevantContext never throws: it returns a text, the empty one
\* when the service is uninitialized or no result passes the filter, also
\* when the embedding call failed.
C18_ContextNeverThrows ==
  (asked.pc = "done" /\ asked.op = "getRelevantContext") =>
    /\ ~asked.res.threw
    /\ asked.res.error = ""
    /\ \A i \in DOMAIN asked.res.value :
         asked.res.value[i].chunk \in Range(asked.cs)
    /\ (~asked.init \/ \A i \in DOMAIN asked.sims : asked.sims[i] <= Threshold)
         => asked.res.value = <<>>

\* The embedding call failed on an initialized, non-empty index and
\* getRelevantContext returned.
C18_Witness ==
  /\ asked.pc = "done"
  /\ asked.op = "getRelevantContext"
  /\ asked.init /\ asked.mock
  /\ asked.cs # <<>>
  /\ ~asked.res.threw

\* C19: getRelevantContext(query, maxResults) outputs exactly the results
\* among the top maxResults whose similarity is not below the threshold (one
\* equal to it is kept), in descending order, numbered from 1.
C19_ThresholdKept ==
  (asked.pc = "done" /\ asked.op = "getRelevantContext" /\ asked.init) =>
    asked.res.value =
      Numbered(SelectSeq(search(asked.cs, asked.sims, asked.k, TRUE).value,
                         PassesInclusive))

\* The positions of the index a result list names.
Returned(r) == {r[i].pos : i \in DOMAIN r}

\* C20: search(query, k) over n chunks returns min(k, n) results, each a
\* chunk of the index with its similarity, sorted by similarity descending
\* with ties in insertion order, none smaller than a chunk left out; over
\* the empty index it returns the empty list without error.
C20_TopK ==
  (asked.pc = "done" /\ asked.op = "search") =>
    LET r == asked.res.value
        n == Len(asked.cs)
    IN  /\ ~asked.res.threw
        /\ Len(r) = Min(asked.k, n)
        /\ n = 0 => r = <<>>
        /\ \A i \in DOMAIN r :
             /\ r[i].pos \in 1..n
             /\ r[i].chunk = asked.cs[r[i].pos]
             /\ r[i].similarity = asked.sims[r[i].pos]
        /\ \A i, j \in DOMAIN r :
             i < j => \/ r[i].similarity > r[j].similarity
                      \/ /\ r[i].similarity = r[j].similarity
                         /\ r[i].pos < r[j].pos
        /\ \A q \in (1..n) \ Returned(r) :
             \A i \in DOMAIN r : r[i].similarity >= asked.sims[q]

\* Three chunks, two asked for, the two returned tie and a chunk inserted
\* before them scores lower.
C20_Witness ==
  /\ asked.pc = "done"
  /\ asked.op = "search"
  /\ Len(asked.cs) = 3
  /\ asked.k = 2
  /\ Len(asked.res.value) = 2
  /\ asked.res.value[1].similarity = asked.res.value[2].similarity
  /\ asked.res.value[1].pos = 2

(***************************************************************************)
(* Properties of plugin failures and of the time a routed call takes.      *)
(***************************************************************************)
\* C11: a registered plugin whose execute hits an internal error or a
\* timeout returns a result and does not throw; the result is marked failed
\* and its error field is set.
C11_FailureCarriesError ==
  \A i \in DOMAIN routed :
    (routed[i].outcome = "error" /\ routed[i].run.executed # <<>>) =>
      /\ ~routed[i].run.threw
      /\ ~routed[i].run.result.success
      /\ routed[i].run.result.error # ""

(***************************************************************************)
(* Properties of one processMessage request from its call to its return.   *)
(***************************************************************************)
AfterRetrieval == {"prompt_session", "prompt_recent", "llm", "add2", "done"}

\* C14: a request that got past its first addMessage runs retrieval whatever
\* the plugin manager returned (no plugin, a successful result, a failed
\* result): no request is past the retrieval step, or has ended after its
\* first addMessage, without getRelevantContext having answered.
C14_RetrievalAlwaysRuns ==
  \A p \in Procs :
    LET a == agent[p] IN
    /\ a.pc \in AfterRetrieval => a.rag \in RagOutcomes
    /\ (a.pc = "failed" /\ a.failedAt # "add1") => a.rag \in RagOutcomes

\* A plugin matched and succeeded, and retrieval ran in the same request.
C14_Witness ==
  \E p \in Procs :
    /\ agent[p].pc \in AfterRetrieval
    /\ agent[p].pluginResult # Null
    /\ agent[p].pluginResult.success
    /\ agent[p].rag = "hit"

\* C15: when processMessage(sessionId, m) has returned r, the session holds
\* what it held when the request was made followed by the user message m
\* and an assistant message whose content is r.
C15_GrownByTwo ==
  \A p \in Procs :
    agent[p].pc = "done" =>
      MessagesOf(agent[p].sid) =
        agent[p].before \o
          <<UserMessageOf(p), ChatMessage("assistant", agent[p].reply, agent[p].k)>>

\* C12: the plugin manager bounds the execution of a matched plugin
\* itself: whatever the plugin, processMessage is not still waiting for
\* execute once the timeout budget has passed.
C12_RouterBoundsExecution ==
  call.pc = "executing" => call.elapsed <= TimeoutBudget

\* C13: every processMessage call eventually completes, with a reply or a
\* failure, also when the LLM call or an embedding call never responds.
C13_EventuallyCompletes ==
  \A p \in Procs :
    (agent[p].pc # "idle") ~> (agent[p].pc \in {"done", "failed"})

(***************************************************************************)
(* Properties of the stored vectors.                                       *)
(***************************************************************************)
\* C21: all vectors stored in the index have the same dimension: a chunk
\* whose vector differs in length from the first one stored is rejected and
\* not stored.
C21_OneDimension ==
  \A c, d \in Range(chunks) : embeddings[c].dim = embeddings[d].dim

Holds(chunk, sentence) ==
  \E k \in DOMAIN chunk : <<chunk[k]>> = sentence

\* The first chunk that holds the sentence whole (0 when none does).
FirstHolder(out, sentence) ==
  IF \E n \in DOMAIN out : Holds(out[n], sentence)
  THEN MinOf({n \in DOMAIN out : Holds(out[n], sentence)})
  ELSE 0

\* C23: every chunk createChunks produces is at most CHUNK_SIZE characters
\* long, except a chunk that holds a sentence which is itself longer than
\* CHUNK_SIZE; overlap words plus a shorter sentence stay within the bound.
C23_ChunkSizeBound ==
  calc.pc = "done" =>
    \A n \in DOMAIN calc.chunks :
      \/ TextLen(calc.chunks[n]) <= CHUNK_SIZE
      \/ \E i \in DOMAIN calc.sentences :
           /\ TextLen(calc.sentences[i]) > CHUNK_SIZE
           /\ Holds(calc.chunks[n], calc.sentences[i])

\* C24: every sentence of the document is whole in at least one chunk, the
\* sentences come in document order across the chunks, and what is left in
\* the buffer is the last chunk, so the last sentence is in the last chunk.
C24_SentencesKept ==
  calc.pc = "done" =>
    LET ss == calc.sentences
        out == calc.chunks
    IN  /\ \A i \in DOMAIN ss : FirstHolder(out, ss[i]) > 0
        /\ \A i, j \in DOMAIN ss :
             i < j => FirstHolder(out, ss[i]) <= FirstHolder(out, ss[j])
        /\ ss # <<>> => out # <<>> /\ Holds(out[Len(out)], ss[Len(ss)])
        /\ \A n \in DOMAIN out : out[n] # <<>>

\* A document of several sentences was cut into several chunks, and a chunk
\* starts with overlap words that are only a part of an earlier sentence.
C24_Witness ==
  /\ calc.pc = "done"
  /\ Len(calc.sentences) >= 3
  /\ Len(calc.chunks) >= 2
  /\ \E n \in DOMAIN calc.chunks :
       /\ n > 1
       /\ calc.chunks[n][1].from > 1

(***************************************************************************)
(* Properties of the embedding provider.                                   *)
(***************************************************************************)
\* C25: generateEmbedding and generateEmbeddings never throw; on an upstream
\* failure, a missing API key included, generateEmbedding returns a fallback
\* vector of length 1536 and generateEmbeddings one such vector per input
\* text; on success the vectors are those of the texts in input order.
C25_EmbeddingFallback ==
  calc.pc = "done" =>
    /\ ~calc.res.threw
    /\ calc.fn = "generateEmbedding" =>
         /\ calc.res.value.length = EmbeddingLength
         /\ calc.outcome # "ok" => calc.res.value = getMockEmbedding
         /\ calc.outcome = "ok" => calc.res.value.of = calc.texts[1]
    /\ calc.fn = "generateEmbeddings" =>
         /\ Len(calc.res.value) = Len(calc.texts)
         /\ \A i \in DOMAIN calc.texts :
              /\ calc.res.value[i].length = EmbeddingLength
              /\ calc.outcome # "ok" => calc.res.value[i] = getMockEmbedding
              /\ calc.outcome = "ok" => calc.res.value[i].of = calc.texts[i]

\* generateEmbeddings was called with several texts and no API key and
\* returned the mock vectors.
C25_Witness ==
  /\ calc.pc = "done"
  /\ calc.fn = "generateEmbeddings"
  /\ calc.outcome = "no_key"
  /\ Len(calc.texts) = MaxTexts
  /\ Len(calc.res.value) = MaxTexts

(***************************************************************************)
(* Properties of the session store in time.                                *)
(***************************************************************************)
\* The step is the write of an addMessage or updateSession of p on sid.
WriteStep(p, sid) ==
  /\ pc[p] \in {"add_write", "upd_write"}
  /\ pc'[p] = "ret"
  /\ op[p].name \in {"addMessage", "updateSession"}
  /\ op[p].sid = sid

\* The step is the end of a read (getSession, getRecentMessages,
\* listSessions) of p.
ReadStep(p) ==
  /\ pc[p] \in {"get_read", "recent_read", "list_read"}
  /\ pc'[p] = "ret"

\* C26: a session comes into being only by an addMessage or updateSession;
\* a stored session changes only by such a write, which refreshes
\* last_active; it goes away only by deleteSession, by a cleanup sweep that
\* found it idle for more than maxAge, or by the expiry of its key; reads
\* create, change and delete nothing.
C26_SessionTransitions ==
  [][/\ \A sid \in SessionIds :
          /\ (store[sid] = Null /\ store'[sid] # Null) =>
               \E p \in Procs : WriteStep(p, sid)
          /\ (store[sid] # Null /\ store'[sid] # Null
                /\ (store'[sid] # store[sid] \/ stamps'[sid] # stamps[sid])) =>
               /\ \E p \in Procs : WriteStep(p, sid)
               /\ stamps'[sid].last_active = now
          /\ (store[sid] # Null /\ store'[sid] = Null) =>
               \/ \E p \in Procs :
                    /\ pc[p] = "del_exec"
                    /\ op[p].name = "deleteSession"
                    /\ op[p].sid = sid
               \/ \E p \in Procs :
                    /\ pc[p] = "cl_del"
                    /\ op[p].name = "cleanup"
                    /\ Head(op[p].ids) = sid
                    /\ op[p].now0 - stamps[sid].last_active > op[p].maxAge
               \/ now' > now /\ stamps[sid].expires <= now'
     /\ \A p \in Procs :
          ReadStep(p) => store' = store /\ index' = index /\ stamps' = stamps
    ]_vars

\* A cleanup sweep has deleted a session that an addMessage created.
C26_Witness ==
  \E p \in Procs :
    /\ pc[p] = "ret"
    /\ op[p].name = "cleanup"
    /\ op[p].deleted # {}
    /\ \A sid \in op[p].deleted : store[sid] = Null

\* C27: a successful write gives the record the full 24 hours again; a
\* stored record is never older than 24 hours (after 24 hours without a
\* write it is gone, cleanup or not); reads leave the expiry as it is.
C27_SlidingExpiry ==
  [][/\ \A sid \in SessionIds :
          /\ store'[sid] # Null =>
               /\ stamps'[sid].expires = stamps'[sid].last_active + TTL
               /\ now' < stamps'[sid].expires
          /\ \A p \in Procs :
               (WriteStep(p, sid) /\ ret'[p].wrote) =>
                 /\ store'[sid] # Null
                 /\ stamps'[sid].expires = now + TTL
     /\ \A p \in Procs : ReadStep(p) => stamps' = stamps
    ]_vars

\* A session written at time 0 was written again later and is stored past
\* the time its first expiry would have come.
C27_Witness ==
  \E sid \in SessionIds :
    /\ store[sid] # Null
    /\ Len(store[sid].messages) >= 2
    /\ stamps[sid].last_active > 0
    /\ now >= TTL

\* C28: cleanup(maxAge) deletes only sessions idle for more than maxAge and
\* returns the number of sessions it deleted, also when a store error ends
\* the sweep.
C28_CleanupCount ==
  \A p \in Procs :
    (pc[p] = "ret" /\ op[p].name = "cleanup") =>
      /\ op[p].deleted \subseteq op[p].judged
      /\ ret[p].value = Cardinality(op[p].deleted)

\* The last min(limit, n) of a session's messages, oldest first.
WindowOf(sessionId, limit) == LastOf(MessagesOf(sessionId), limit)

SectionOrder ==
  <<"base", "capabilities", "session", "memory", "context", "plugin">>
RankOf(name) == CHOOSE i \in DOMAIN SectionOrder : SectionOrder[i] = name
SpecifiedSections(prompt) ==
  SelectSeq(prompt, LAMBDA s : s.name \in Range(SectionOrder))
HasSection(prompt, name) == \E i \in DOMAIN prompt : prompt[i].name = name

\* C29: the specified sections of a built prompt come in the fixed order,
\* each at most once, and a section is there only when it has content: the
\* capabilities only with a plugin registered, the memory summary only with
\* history, the retrieval context only when non-empty, the plugin section
\* only when a plugin matched.
C29_PromptSections ==
  calc.pc = "done" =>
    LET sections == SpecifiedSections(calc.prompt) IN
    /\ \A i, j \in DOMAIN sections :
         i < j => RankOf(sections[i].name) < RankOf(sections[j].name)
    /\ HasSection(calc.prompt, "base") /\ HasSection(calc.prompt, "session")
    /\ HasSection(calc.prompt, "capabilities") =>
         calc.in.availablePlugins # <<>>
    /\ HasSection(calc.prompt, "memory") => calc.recentMessages # <<>>
    /\ HasSection(calc.prompt, "context") => calc.in.relevantContext # ""
    /\ HasSection(calc.prompt, "plugin") => calc.in.pluginResult # Null

\* C31: no persisted session holds more than 20 messages, whatever addMessage
\* calls were made.
C31_PrunedToLimit ==
  \A s \in SessionIds :
    store[s] # Null => Len(store[s].messages) <= PruneLimit

\* The message and the session id validateAgentRequest may let through.
AcceptableRequest(request) ==
  /\ request.message # NotAString
  /\ RawLen(request.message) = request.message.core
  /\ request.message.core \in 1..MaxMessage
  /\ request.sessionId # NotAString
  /\ request.sessionId.len \in 1..MaxSessionId
  /\ request.sessionId.legal

\* C32: a request that passed validateAgentRequest hands on a trimmed message
\* of 1 to 4000 characters and a session id of 1 to 100 legal characters; a
\* request that did not is answered with a ValidationError of status 400.
C32_ValidatedRequest ==
  /\ calc.pc = "validated" => AcceptableRequest(calc.request)
  /\ (calc.pc = "thrown" /\ calc.error.name = "ValidationError") =>
       calc.error.statusCode = 400

\* C33: the body of an error response holds the error's message only for an
\* operational error, the fixed generic text otherwise, and never the stack,
\* whatever NODE_ENV is.
C33_StableErrorBody ==
  (calc.pc = "responded" /\ calc.failed) =>
    /\ calc.response.message =
         IF calc.thrown.isOperational THEN calc.thrown.message
         ELSE GenericMessage
    /\ calc.response.stack = NoField

\* C34: the message "Calculate 15 * 8 + sqrt(144)" routed through the plugin
\* manager gives a successful math result whose expression holds the numbers
\* 15, 8 and 144 and whose result is 132.
C34_ReadmeExample ==
  (calc.pc = "done" /\ calc.message = ReadmeMessage) =>
    /\ calc.result.success /\ calc.result.plugin = "math"
    /\ \A n \in {15, 8, 144} :
         \E i \in DOMAIN calc.result.expression :
           calc.result.expression[i] = Num(n)
    /\ calc.result.result = 132

\* C35: no step replaces the stored messages of a session by fewer messages
\* while the session stays stored, also when addMessage could not read the
\* existing record.
C35_CountNeverDecreases ==
  [][\A s \in SessionIds :
       (store[s] # Null /\ store'[s] # Null) =>
         Len(store'[s].messages) >= Len(store[s].messages)]_vars

\* C36: whatever the interleaving of the requests on a session, and with no
\* store command failing, the history a request passes to the chat
\* completion call contains that request's own user message.
C36_OwnMessageInHistory ==
  \A p \in Procs :
    (agent[p].pc = "llm" /\ faults = 0) =>
      \E i \in DOMAIN agent[p].history :
        agent[p].history[i] =
          ChatMessage("user", agent[p].userMessage, agent[p].k)

\* A message the session held before the first operation of the behaviour.
StoredBefore(message) == message.ts < 0

\* C37: with no store command failing, a session that deleteSession removed
\* does not come back holding a message stored before the deletion, and
\* when no operation is in flight the index holds no id of a deleted session.
C37_NoResurrection ==
  [][faults' = 0 =>
       \A s \in SessionIds :
         /\ (store[s] = Null /\ store'[s] # Null) =>
              \A i \in DOMAIN store'[s].messages :
                ~StoredBefore(store'[s].messages[i])
         /\ (Quiet' /\ store'[s] = Null) => s \notin index']_vars

\* C38: with no store command failing, the session a cleanup sweep deletes
\* has been idle for more than maxAge at the moment of its deletion: a
\* message appended after the sweep's staleness check is not deleted.
C38_FreshWriteSurvives ==
  [][faults' = 0 =>
       \A p \in Procs :
         (pc[p] = "cl_del" /\ pc'[p] # "cl_del") =>
           LET sid == Head(op[p].ids) IN
           (store[sid] # Null /\ store'[sid] = Null) =>
             IsStale(stamps[sid], now, op[p].maxAge)]_vars

\* C39: when no operation is in flight, a session id is in the index exactly
\* when a record is stored for it.
C39_IndexMatchesRecords ==
  Quiet => \A s \in SessionIds : s \in index <=> store[s] # Null

\* C40: whatever initialize calls were made, overlapping or after a failed
\* one, every chunk is in the vector index at most once, and a service that
\* no call is working on and that is uninitialized holds no chunks.
C40_ChunksOnce ==
  /\ \A i, j \in DOMAIN chunks : chunks[i] = chunks[j] => i = j
  /\ (~initialized /\ \A i \in InitCalls : inits[i].pc \in {"idle", "failed", "done"})
       => chunks = <<>>

=============================================================================
